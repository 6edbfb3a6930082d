--------------------------------- MODULE Buckets ---------------------------------
(***************************************************************************)
(* The deques of src/app/gatekeeper.py, one per IP, in which the gate and  *)
(* the limiter remember what an IP did lately, oldest first.               *)
(***************************************************************************)
EXTENDS Totals, Sequences, FiniteSetsExt

Bucket(buckets, ip) == IF ip \in DOMAIN buckets THEN buckets[ip] ELSE <<>>

\* An emptied bucket is deleted, not kept.
Replace(buckets, ip, entries) ==
    IF entries = <<>> THEN Without(buckets, {ip}) ELSE With(buckets, ip, entries)

\* What is left of a deque after popping from the left up to the first index to keep.
FromFirst(entries, kept) ==
    IF kept = {} THEN <<>> ELSE SubSeq(entries, Min(kept), Len(entries))

\* Of a deque of stamps, what is left once those at or before the cutoff are popped.
Newer(stamps, cutoff) == {i \in DOMAIN stamps : stamps[i] > cutoff}
Pruned(stamps, cutoff) == FromFirst(stamps, Newer(stamps, cutoff))

OldestFirst(stamps) == \A i, j \in DOMAIN stamps : i <= j => stamps[i] <= stamps[j]
================================================================================
