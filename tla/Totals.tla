------------------------------- MODULE Totals -------------------------------
(***************************************************************************)
(* Running totals of a sequence of numbers, sums over a finite set, and    *)
(* the concatenation of a sequence of sequences.                           *)
(***************************************************************************)
EXTENDS Integers, Sequences, FiniteSets

(* Partial(q)[i] is the sum of the first i elements of q. *)
Partial(q) ==
    LET sum[i \in 0..Len(q)] == IF i = 0 THEN 0 ELSE sum[i - 1] + q[i]
    IN  sum

Total(q) == Partial(q)[Len(q)]

(* The elements of S in some order, each once; S is finite if they can be   *)
(* listed.                                                                  *)
Listings(S) ==
    {e \in [1..Cardinality(S) -> S] :
        /\ \A i, j \in DOMAIN e : e[i] = e[j] => i = j
        /\ \A s \in S : \E i \in DOMAIN e : e[i] = s}

Finite(S) == Cardinality(S) \in Nat /\ Listings(S) # {}

Enumeration(S) == CHOOSE e \in Listings(S) : TRUE

(* The sum of f[x] over the elements x of the finite set S. *)
SumOver(f, S) == Total([i \in 1..Cardinality(S) |-> f[Enumeration(S)[i]]])

(* Prefixes(s)[i] is the concatenation of the first i elements of s. *)
Prefixes(s) ==
    LET join[i \in 0..Len(s)] == IF i = 0 THEN <<>> ELSE join[i - 1] \o s[i]
    IN  join

Joined(s) == Prefixes(s)[Len(s)]

=============================================================================
