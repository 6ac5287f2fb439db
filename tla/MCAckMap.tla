------------------------------ MODULE MCAckMap ------------------------------
(* Instances of AckMap: which packets have which numbers, which numbers      *)
(* share a bucket.                                                           *)
EXTENDS AckMap, TLC

CONSTANTS n1, n2, n3

\* Three packets with numbers of their own.
Distinct == n1 :> 1 @@ n2 :> 2 @@ n3 :> 3
\* Two workers gave their packets the same number.
Twice == n1 :> 1 @@ n2 :> 1 @@ n3 :> 2

\* Numbers 200 apart meet in a bucket; nearer ones have buckets of their own.
OneBucket == 1 :> 0 @@ 2 :> 0 @@ 3 :> 0
OwnBuckets == 1 :> 1 @@ 2 :> 2 @@ 3 :> 3

\* Inserts and removes of one bucket, two of them with the same number; and a
\* collector that is left alone, where no two numbers share a bucket.
MCScenario == {[key |-> Twice, bucket |-> OneBucket, collections |-> 0],
               [key |-> Distinct, bucket |-> OwnBuckets, collections |-> 2]}

\* The workers run the same code.
WorkerSymmetry == Permutations(Worker)

=============================================================================
