------------------------------ MODULE SensorLines ------------------------------
(***************************************************************************)
(* The samples of one sensor in a channel that all sensors share.  A       *)
(* sample is a record with its sensor src and its number seq.              *)
(***************************************************************************)
EXTENDS Integers, Sequences

(* numbers[i]: those of s among the first i samples of q. *)
NumbersUpTo(s, q) ==
  LET numbers[i \in 0..Len(q)] ==
        IF i = 0 THEN <<>>
        ELSE IF q[i].src = s THEN Append(numbers[i - 1], q[i].seq)
                             ELSE numbers[i - 1]
  IN  numbers

(* The numbers of the samples of s in q, oldest first. *)
NumbersOf(s, q) == NumbersUpTo(s, q)[Len(q)]

==============================================================================
