----------------------------- MODULE RawBuffers -----------------------------
(***************************************************************************)
(* A growable byte buffer written through a raw pointer, as the kernels    *)
(* see Vec<u8> and EmitBuf (emit.rs): `mem` is the capacity, `len` the     *)
(* published length, `gen` counts the moves of the storage, so that a      *)
(* pointer taken before a growth can be told from one taken after it.      *)
(***************************************************************************)
EXTENDS Integers, Sequences

(* A byte nothing has been stored in.                                      *)
Junk == -1

Repeat(b, n) == [k \in 1..n |-> b]
Take(s, n) == SubSeq(s, 1, n)
FromOffset(s, i) == SubSeq(s, i + 1, Len(s))

EmptyBuffer == [mem |-> <<>>, len |-> 0, gen |-> 0]

(* reserve: a growth keeps the published bytes and no other, and gives no  *)
(* more than it is asked for.                                              *)
Reserve(b, n) ==
    IF b.len + n <= Len(b.mem) THEN b
    ELSE [mem |-> Take(b.mem, b.len) \o Repeat(Junk, n), len |-> b.len, gen |-> b.gen + 1]

(* `n` bytes at offset `at` are within the capacity.                       *)
Room(b, at, n) == at + n <= Len(b.mem)

(* A store of `bytes` at `at`; what would fall outside is not stored.      *)
Put(b, at, bytes) ==
    [b EXCEPT !.mem = [k \in 1..Len(@) |->
                          IF at < k /\ k <= at + Len(bytes) THEN bytes[k - at] ELSE @[k]]]

Publish(b, n) == [b EXCEPT !.len = n]
Published(b) == Take(b.mem, b.len)

(* copy_small: the widest word that fits, at both ends of the slice.       *)
CopySmall(b, at, bytes) ==
    LET n == Len(bytes)
        word == CASE n >= 16 -> 16 [] n >= 8 -> 8 [] n >= 4 -> 4 [] n >= 2 -> 2 [] OTHER -> n
    IN  Put(Put(b, at, Take(bytes, word)), at + n - word, FromOffset(bytes, n - word))

(* padded_tail: fewer than `width` bytes, and zeros.                       *)
PaddedTail(bytes, width) == bytes \o Repeat(0, width - Len(bytes))

(* The lowest of a set of lanes, which trailing_zeros finds in a mask.     *)
Lowest(lanes) == CHOOSE k \in lanes : \A j \in lanes : k <= j
=============================================================================
