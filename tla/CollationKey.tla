----------------------------- MODULE CollationKey -----------------------------
(***************************************************************************)
(* The legacy CollationKey of sortkey.cpp: a byte array fBytes of          *)
(* fCapacity bytes of which the first fCount are the key, the flag fBogus, *)
(* and fHashCode, the hash code computed lazily by hashCode() and cached   *)
(* (kInvalidHashCode means "not computed").                                *)
(*                                                                         *)
(* A key object is a slot of Keys; an action is one public operation on a  *)
(* slot: the byte-array constructor, the default and copy constructors     *)
(* (the old object in the slot is destroyed first, which only frees its    *)
(* array), operator=, reset(), setToBogus() and hashCode(), which writes   *)
(* the cache.  compareTo() and operator== change nothing and appear in the *)
(* properties.  new uint8_t[n] may fail (AllocMayFail).  A read past the   *)
(* array yields a byte of Garbage.                                         *)
(*                                                                         *)
(* Not modelled: CollationKey(const UnicodeString&), which calls           *)
(* copyUnicodeString on members it never initialised, and reverseBytes,    *)
(* a helper for the collator that builds the key.                          *)
(***************************************************************************)
EXTENDS Integers, Sequences

CONSTANTS
    Keys,           \* the key objects
    Values,         \* byte strings passed to CollationKey(newValues, count)
    Garbage,        \* the bytes a read past the end of fBytes may return
    AllocMayFail,   \* whether new uint8_t[n] may return NULL
    NULL

VARIABLES
    keys,           \* keys[k]: [fCount, fCapacity, fBogus, fHashCode, fBytes]
    op              \* history: the last call and its arguments

vars == <<keys, op>>

kInvalidHashCode == 0
kEmptyHashCode == 1

Zeros(n) == [i \in 1..n |-> 0]
AllocResults == IF AllocMayFail THEN BOOLEAN ELSE {TRUE}

\* The first n bytes of an array; a NULL array is read only with n = 0.
Prefix(b, n) == IF n = 0 THEN <<>> ELSE SubSeq(b, 1, n)

\* icu_memcpy(dst, src, n)
MemCopy(dst, src, n) == IF n = 0 THEN dst ELSE Prefix(src, n) \o SubSeq(dst, n + 1, Len(dst))

\* CollationKey::CollationKey()
Default == [fCount |-> 0, fCapacity |-> 0, fBogus |-> FALSE,
            fHashCode |-> kEmptyHashCode, fBytes |-> NULL]

\* setToBogus() frees the array and clears the fields, but leaves fBogus.
SetToBogus(r) ==
    [r EXCEPT !.fBytes = NULL, !.fCapacity = 0, !.fCount = 0, !.fHashCode = kInvalidHashCode]

\* A reset() that keeps the cached hash code of the old bytes.
ResetKeepHash(r) == [r EXCEPT !.fCount = 0, !.fBogus = FALSE]

Reset(r) == [r EXCEPT !.fCount = 0, !.fBogus = FALSE, !.fHashCode = kEmptyHashCode]

\* CollationKey(const uint8_t* newValues, int32_t count)
FromBytes(v, ok) ==
    LET r == [fCount |-> Len(v), fCapacity |-> Len(v), fBogus |-> FALSE,
              fHashCode |-> kInvalidHashCode, fBytes |-> NULL]
    IN  IF ok THEN [r EXCEPT !.fBytes = v] ELSE SetToBogus(r)

(* A copy constructor that takes the other key's capacity as its count.   *)
CopyOfCapacityCount(o, ok) ==
    LET r == [fCount |-> o.fCapacity, fCapacity |-> o.fCapacity, fBogus |-> FALSE,
              fHashCode |-> o.fHashCode, fBytes |-> NULL]
    IN  IF o.fBogus \/ ~ok THEN SetToBogus(r)
        ELSE [r EXCEPT !.fBytes = Prefix(o.fBytes, o.fCount) \o Zeros(o.fCapacity - o.fCount)]

\* CollationKey(const CollationKey& other): a new array of other's capacity,
\* its first fCount bytes copied and the rest cleared.
CopyOf(o, ok) ==
    LET r == [fCount |-> o.fCount, fCapacity |-> o.fCapacity, fBogus |-> FALSE,
              fHashCode |-> o.fHashCode, fBytes |-> NULL]
    IN  IF o.fBogus \/ ~ok THEN SetToBogus(r)
        ELSE [r EXCEPT !.fBytes = Prefix(o.fBytes, o.fCount) \o Zeros(o.fCapacity - o.fCount)]

(* A growth that forgets to record the new capacity.                       *)
EnsureCapacityKeepCapacity(r, n, ok) ==
    IF r.fCapacity < n /\ ~ok THEN SetToBogus([r EXCEPT !.fBytes = NULL])
    ELSE [r EXCEPT !.fBytes = IF r.fCapacity < n THEN Zeros(n) ELSE @,
                   !.fBogus = FALSE, !.fCount = n, !.fHashCode = kInvalidHashCode]

(* ensureCapacity(newSize): a smaller array is replaced by a new one whose *)
(* first old-capacity bytes are cleared; its tail is never read before the *)
(* caller overwrites all newSize bytes, so it is shown as zeros.           *)
EnsureCapacity(r, n, ok) ==
    IF r.fCapacity < n /\ ~ok THEN SetToBogus([r EXCEPT !.fBytes = NULL])
    ELSE [r EXCEPT !.fBytes = IF r.fCapacity < n THEN Zeros(n) ELSE @,
                   !.fCapacity = IF r.fCapacity < n THEN n ELSE @,
                   !.fBogus = FALSE, !.fCount = n, !.fHashCode = kInvalidHashCode]

(* operator=(other) for a different object.  After a failed               *)
(* ensureCapacity the isBogus() test is false (setToBogus left fBogus), so *)
(* the hash code is copied and fCount = 0 bytes are copied to NULL.        *)
AssignFrom(r, o, ok) ==
    CASE o.fBogus -> SetToBogus(r)
      [] o.fBytes # NULL ->
            LET e == EnsureCapacity(r, o.fCount, ok)
            IN  IF e.fBogus THEN e
                ELSE [e EXCEPT !.fHashCode = o.fHashCode,
                               !.fBytes = MemCopy(e.fBytes, o.fBytes, e.fCount)]
      [] OTHER -> Reset(r)

(***************************************************************************)
(* hashCode(): hash = hash * 37 + (p[0] << 8) + p[1] for p stepping by inc *)
(* from the start while p < fBytes + fCount.  For an odd step count the    *)
(* last p[1] is the byte at index fCount: a stale byte inside the array,   *)
(* or one past it when fCount = fCapacity.                                 *)
(***************************************************************************)
Inc(count) == IF count >= 256 THEN count \div 128 ELSE 2

RECURSIVE HashLoop(_, _, _, _, _)
HashLoop(b, p, limit, inc, hash) ==
    IF p >= limit THEN hash
    ELSE HashLoop(b, p + inc, limit, inc, hash * 37 + b[p + 1] * 256 + b[p + 2])

\* The bytes hashCode() can read: the array, then whatever follows it.
Readable(r, g) == IF r.fBytes = NULL THEN <<>> ELSE r.fBytes \o <<g>>

ComputeHash(r, g) ==
    LET hash == HashLoop(Readable(r, g), 0, r.fCount, Inc(r.fCount), 0)
    IN  IF hash = kInvalidHashCode THEN kEmptyHashCode ELSE hash

\* The value hashCode() returns when the byte past the array is g.
HashCodeOf(r, g) == IF r.fHashCode = kInvalidHashCode THEN ComputeHash(r, g) ELSE r.fHashCode

\* operator==
KeyEquals(r, s) == r.fCount = s.fCount /\ Prefix(r.fBytes, r.fCount) = Prefix(s.fBytes, s.fCount)

\* icu_memcmp(a, b, n) on the first n bytes: the sign of the first difference.
MemCmp(a, b, n) ==
    LET diff == {i \in 1..n : a[i] # b[i]}
    IN  IF diff = {} THEN 0
        ELSE LET i == CHOOSE i \in diff : \A j \in diff : i <= j
             IN  IF a[i] < b[i] THEN -1 ELSE 1

(* A compareTo() that calls every comparison with an empty key EQUAL.      *)
CompareToEmptyEqual(r, s) ==
    LET count == IF r.fCount < s.fCount THEN r.fCount ELSE s.fCount
    IN  IF count = 0 THEN 0 ELSE MemCmp(r.fBytes, s.fBytes, count)

(* compareTo(): an empty key is LESS than a non-empty one; otherwise the   *)
(* first min(fCount) bytes decide, and equal prefixes are EQUAL whatever   *)
(* the lengths.                                                            *)
CompareTo(r, s) ==
    LET count == IF r.fCount < s.fCount THEN r.fCount ELSE s.fCount
    IN  CASE count = 0 /\ r.fCount < s.fCount -> -1
          [] count = 0 /\ r.fCount > s.fCount -> 1
          [] count = 0 -> 0
          [] OTHER -> MemCmp(r.fBytes, s.fBytes, count)

-----------------------------------------------------------------------------
Call(c, k, o, v) == [call |-> c, key |-> k, other |-> o, bytes |-> v]

Init ==
    /\ keys = [k \in Keys |-> Default]
    /\ op = Call("none", "none", "none", <<>>)

\* The call c with arguments k, o, v leaves r in slot k.
Update(c, k, o, v, r) ==
    /\ keys' = [keys EXCEPT ![k] = r]
    /\ op' = Call(c, k, o, v)

ConstructDefault(k) == Update("default", k, k, <<>>, Default)

ConstructFromBytes(k, v) == \E ok \in AllocResults : Update("bytes", k, k, v, FromBytes(v, ok))

ConstructCopy(k, o) == \E ok \in AllocResults : Update("copy", k, o, <<>>, CopyOf(keys[o], ok))

Assign(k, o) == \E ok \in AllocResults : Update("assign", k, o, <<>>, AssignFrom(keys[k], keys[o], ok))

ResetKey(k) == Update("reset", k, k, <<>>, Reset(keys[k]))

SetToBogusKey(k) == Update("bogus", k, k, <<>>, SetToBogus(keys[k]))

HashCode(k) ==
    /\ keys[k].fHashCode = kInvalidHashCode
    /\ \E g \in Garbage : Update("hash", k, k, <<>>, [keys[k] EXCEPT !.fHashCode = ComputeHash(keys[k], g)])

Next ==
    \E k \in Keys :
        \/ ConstructDefault(k)
        \/ \E v \in Values : ConstructFromBytes(k, v)
        \/ \E o \in Keys \ {k} : ConstructCopy(k, o) \/ Assign(k, o)
        \/ ResetKey(k)
        \/ SetToBogusKey(k)
        \/ HashCode(k)

Spec == Init /\ [][Next]_vars

-----------------------------------------------------------------------------
(* Properties.                                                             *)

Bytes == 0..255

\* Every key's array, when it has one, holds exactly fCapacity bytes and the
\* key's fCount bytes lie inside it.
TypeOK ==
    /\ op.call \in {"none", "default", "bytes", "copy", "assign", "reset", "bogus", "hash"}
    /\ \A k \in Keys :
           LET r == keys[k]
           IN  /\ r.fBogus \in BOOLEAN /\ r.fHashCode \in Int
               /\ \/ r.fBytes = NULL /\ r.fCount = 0
                  \/ r.fBytes \in Seq(Bytes) /\ Len(r.fBytes) = r.fCapacity /\ r.fCount \in 0..r.fCapacity

\* The hashCode() contract: two keys that operator== calls equal return the
\* same hash code, whether it was cached before a copy, an assignment or a
\* reset, or computed now, and whatever lies past the end of the array.
EqualKeysEqualHash ==
    \A a, b \in Keys :
        KeyEquals(keys[a], keys[b]) =>
            \A ga, gb \in Garbage : HashCodeOf(keys[a], ga) = HashCodeOf(keys[b], gb)

\* The order of byte strings in which a proper prefix sorts first.
RECURSIVE ByteOrder(_, _)
ByteOrder(a, b) ==
    CASE a = <<>> /\ b = <<>> -> 0
      [] a = <<>> -> -1
      [] b = <<>> -> 1
      [] Head(a) # Head(b) -> IF Head(a) < Head(b) THEN -1 ELSE 1
      [] OTHER -> ByteOrder(Tail(a), Tail(b))

\* compareTo() orders any two keys, including empty, reset and bogus ones,
\* as their byte strings, and returns EQUAL exactly when operator== holds.
CompareToOrder ==
    \A a, b \in Keys :
        LET r == keys[a]
            s == keys[b]
        IN  /\ CompareTo(r, s) = ByteOrder(Prefix(r.fBytes, r.fCount), Prefix(s.fBytes, s.fCount))
            /\ (CompareTo(r, s) = 0) = KeyEquals(r, s)

\* The implementation refines CollationKeyValue: a key's value is its first
\* fCount bytes, and the history op is the abstract op.
Abstract == INSTANCE CollationKeyValue
    WITH value <- [k \in Keys |-> Prefix(keys[k].fBytes, keys[k].fCount)]

\* Every call is the step CollationKeyValue promises for it: the byte-array
\* constructor leaves its bytes, the copy constructor and operator= the
\* other key's bytes (through ensureCapacity, memcpy and the fCount they
\* set), reset(), setToBogus() and the default constructor the empty key,
\* hashCode() the same bytes, and no call changes another key.
RefinesValue == Abstract!Spec
=============================================================================
