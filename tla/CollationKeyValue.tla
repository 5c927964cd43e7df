-------------------------- MODULE CollationKeyValue --------------------------
(***************************************************************************)
(* What a CollationKey promises its users (sortkey.cpp): it holds a byte   *)
(* string, the sort key, which operator==, compareTo() and getByteArray()  *)
(* observe.  op is the last public call and its arguments, so that each    *)
(* step says what that call leaves in its key: the bytes passed to the     *)
(* constructor, the other key's bytes after a copy or an assignment, the   *)
(* empty string after the default constructor, reset() and setToBogus(),   *)
(* and no change for hashCode().  No call changes another key.  When       *)
(* AllocMayFail, a constructor, copy or assignment that allocates may      *)
(* leave the empty string instead.                                         *)
(*                                                                         *)
(* isBogus() is not part of this view: no code of sortkey.cpp ever sets    *)
(* fBogus, so it is FALSE for every key.  The byte array, its capacity and *)
(* the cached hash code are not part of it either.                        *)
(***************************************************************************)
EXTENDS Sequences

CONSTANTS
    Keys,           \* the key objects
    Values,         \* the byte strings keys are built from
    AllocMayFail    \* whether allocating the bytes may fail

VARIABLES
    value,          \* value[k]: the bytes the key holds
    op              \* the last call: [call, key, other, bytes]

vars == <<value, op>>

Call(c, k, o, v) == [call |-> c, key |-> k, other |-> o, bytes |-> v]

NoCall == Call("none", "none", "none", <<>>)

Init ==
    /\ value = [k \in Keys |-> <<>>]
    /\ op = NoCall

\* The call c on k leaves v in k, or, when it allocates and allocation may
\* fail, the empty string.
Leaves(k, v, allocates) ==
    \/ value' = [value EXCEPT ![k] = v]
    \/ allocates /\ AllocMayFail /\ value' = [value EXCEPT ![k] = <<>>]

Construct(k, v) == op' = Call("bytes", k, k, v) /\ Leaves(k, v, TRUE)

ConstructDefault(k) == op' = Call("default", k, k, <<>>) /\ Leaves(k, <<>>, FALSE)

Copy(k, o) == op' = Call("copy", k, o, <<>>) /\ Leaves(k, value[o], TRUE)

Assign(k, o) == op' = Call("assign", k, o, <<>>) /\ Leaves(k, value[o], TRUE)

Reset(k) == op' = Call("reset", k, k, <<>>) /\ Leaves(k, <<>>, FALSE)

SetToBogus(k) == op' = Call("bogus", k, k, <<>>) /\ Leaves(k, <<>>, FALSE)

HashCode(k) == op' = Call("hash", k, k, <<>>) /\ UNCHANGED value

Next ==
    \E k \in Keys :
        \/ \E v \in Values : Construct(k, v)
        \/ ConstructDefault(k)
        \/ \E o \in Keys \ {k} : Copy(k, o) \/ Assign(k, o)
        \/ Reset(k)
        \/ SetToBogus(k)
        \/ HashCode(k)

Spec == Init /\ [][Next]_vars
=============================================================================
