------------------------------ MODULE MCOperands ------------------------------
(* Instances of Operands for TLC. *)
EXTENDS OperandsProps

Lit(b, f, ds) == [base |-> b, first |-> f, digits |-> ds]

\* All the texts of numbers in and around a word of 8 bits: binary ones of one
\* to three, seven to nine digits, hexadecimal ones of up to three, decimal ones
\* up to 3 digits at the boundaries, and prefixes that do not begin with 0.
Binaries == {Lit(2, 0, ds) : ds \in UNION {[1 .. n -> {0, 1}] : n \in {0, 1, 2, 7, 8, 9}}}
Hexadecimals == {Lit(16, 0, ds) : ds \in UNION {[1 .. n -> {0, 1, 7, 8, 15}] : n \in 0 .. 3}}
Decimals == {Lit(10, 0, ds) : ds \in {<<0>>, <<9>>, <<1, 2, 7>>, <<1, 2, 8>>, <<2, 5, 6>>, <<9, 9, 9>>, <<0, 0, 7>>}}
Prefixed == {Lit(b, f, ds) : b \in {2, 16}, f \in {1, 9}, ds \in {<<>>, <<1>>, <<1, 0>>, <<1, 1, 1, 1, 1, 1>>}}
Texts == Binaries \union Hexadecimals \union Decimals \union Prefixed

\* A few numbers for the operators: 0, 1, 3, 7, the largest, and -1 and -128,
\* which take the wide type.
Numbers ==
    {Lit(10, 0, <<0>>), Lit(10, 0, <<1>>), Lit(10, 0, <<3>>), Lit(10, 0, <<1, 2, 7>>),
     Lit(16, 0, <<15, 15>>), Lit(16, 0, <<8, 0>>)}
Few == {Lit(10, 0, <<0>>), Lit(10, 0, <<2>>), Lit(16, 0, <<15, 14>>)}

Families == <<
    [literals |-> Texts, words |-> {5}, nodes |-> 1],
    [literals |-> Numbers, words |-> {0, 5, 128, 251}, nodes |-> 3],
    [literals |-> Few, words |-> {0, 251}, nodes |-> 5],
    [literals |-> {Lit(10, 0, <<1>>)}, words |-> {128}, nodes |-> 4]>>

Lazily == <<[literals |-> {Lit(10, 0, <<0>>)}, words |-> {0}, nodes |-> 7]>>
===============================================================================
