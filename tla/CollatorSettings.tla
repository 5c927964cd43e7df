-------------------------- MODULE CollatorSettings --------------------------
(***************************************************************************)
(* The settings lifecycle of RuleBasedCollator (rulebasedcollator.cpp):    *)
(* construction from a tailoring, the copy constructor, operator=, the     *)
(* destructor, and the three setters (setAttribute, setVariableTop,        *)
(* setReorderCodes), together with the copy-on-write machinery they share  *)
(* (ensureOwnedSettings, cloneSettings, releaseSettings) and the cached    *)
(* fastLatinOptions.                                                       *)
(*                                                                         *)
(* A collator either borrows its tailoring's default settings or owns a    *)
(* CollationSettings object.  Owned settings point at a 256-byte reorder   *)
(* table and a reorder-code array that are either the tailoring's own      *)
(* (immutable, never freed by a collator), NULL, or heap arrays the        *)
(* collator owns.  The heap is modelled as a small pool of addresses whose *)
(* malloc may fail; a free, write or read through a bad pointer is         *)
(* recorded in heap.fault.                                                 *)
(*                                                                         *)
(* Data abstraction: a reorder table is represented by the reorder-code    *)
(* list it was built from (makeReorderTable is a function of the codes);   *)
(* the options word keeps the two attributes strength and alternate.       *)
(***************************************************************************)
EXTENDS Integers, Sequences, FiniteSets

CONSTANTS
    Colls,              \* collator objects (slots that may be constructed and destroyed)
    Tailorings,         \* cached CollationTailoring objects (the cache holds one reference)
    DefaultCodes,       \* DefaultCodes[t]: the tailoring's default reorder codes (<<>>: no reordering)
    HasFastLatinTable,  \* HasFastLatinTable[t]: data->fastLatinTable != NULL
    Codes,              \* script codes that may be passed to setReorderCodes
    DefaultCode,        \* UCOL_REORDER_CODE_DEFAULT
    ReorderInputs,      \* reorder-code lists passed to setReorderCodes
    VarTops,            \* variableTop values (ordered primary weights)
    DefaultVarTop,      \* the default settings' variableTop
    FastLatinMaxVarTop, \* highest variableTop the fast-Latin table header covers
    Addr,               \* heap addresses
    AllocMayFail,       \* whether new/malloc may return NULL with memory left
    NULL

Attrs == {"strength", "alternate"}
AttrValues == [strength |-> {"tertiary", "identical"},
               alternate |-> {"non-ignorable", "shifted"}]
DefaultValue == "default"                     \* UCOL_DEFAULT
ExplicitKeys == Attrs \cup {"variableTop"}    \* bits of explicitlySetAttributes

ASSUME /\ DefaultVarTop \in VarTops
       /\ \A t \in Tailorings : DefaultCodes[t] \in Seq(Codes)
       /\ \A r \in ReorderInputs : r \in Seq(Codes) \/ r = <<DefaultCode>>

VARIABLES
    alive,        \* alive[c]: the collator object exists
    tailoring,    \* tailoring[c]: the CollationTailoring it references
    settings,     \* settings[c]: "default" (&tailoring->settings), "owned", or NULL
    ownedSettings,\* ownedSettings[c]: NULL or the owned CollationSettings
    ownedCap,     \* ownedReorderCodesCapacity
    explicitAttrs,\* explicitlySetAttributes
    fastLatin,    \* the cached fastLatinOptions
    refs,         \* refs[t]: the tailoring's reference count
    heap          \* [alloc, content, fault]: allocated addresses and their contents

vars == <<alive, tailoring, settings, ownedSettings, ownedCap, explicitAttrs,
          fastLatin, refs, heap>>

-----------------------------------------------------------------------------
(* Pointers into tailoring data, and the default settings of a tailoring.  *)

DefTable(t) == IF DefaultCodes[t] = <<>> THEN NULL ELSE <<"tailoring", "table", t>>
DefCodes(t) == IF DefaultCodes[t] = <<>> THEN NULL ELSE <<"tailoring", "codes", t>>

DefaultSettings(t) ==
    [strength |-> "tertiary", alternate |-> "non-ignorable",
     variableTop |-> DefaultVarTop,
     table |-> DefTable(t), codes |-> DefCodes(t), len |-> Len(DefaultCodes[t])]

\* The settings object a collator's "settings" pointer designates.
Eff(c) == IF settings[c] = "owned" THEN ownedSettings[c] ELSE DefaultSettings(tailoring[c])

\* The bytes behind a pointer (for a table, the codes it was built from).
Content(h, p) == CASE p = NULL -> <<>>
                   [] p \in Addr -> h.content[p]
                   [] OTHER -> DefaultCodes[p[3]]

-----------------------------------------------------------------------------
(* The heap: uprv_malloc, uprv_free, writes and reads through pointers.    *)

Fault(h, f) == IF h.fault = "none" THEN [h EXCEPT !.fault = f] ELSE h

\* Results malloc may return: a free address, or NULL.  Which free address
\* it returns is irrelevant to every property (addresses are only compared
\* for equality), so the model always takes the same one.
MallocResults(h, taken) ==
    LET free == Addr \ (h.alloc \cup taken)
    IN (IF free = {} THEN {} ELSE {CHOOSE a \in free : TRUE})
       \cup (IF AllocMayFail \/ free = {} THEN {NULL} ELSE {})

Malloc(h, a, v) == [h EXCEPT !.alloc = @ \cup {a}, !.content[a] = v]

FreePtr(h, p) == CASE p = NULL -> h
                   [] p \in h.alloc -> [h EXCEPT !.alloc = @ \ {p}, !.content[p] = <<>>]
                   [] p \in Addr -> Fault(h, "double free")
                   [] OTHER -> Fault(h, "free of tailoring data")

WritePtr(h, p, v) == CASE p = NULL -> Fault(h, "write through NULL")
                       [] p \in h.alloc -> [h EXCEPT !.content[p] = v]
                       [] p \in Addr -> Fault(h, "write after free")
                       [] OTHER -> Fault(h, "write to tailoring data")

ReadPtr(h, p) == IF p \in Addr \ h.alloc THEN Fault(h, "read after free") ELSE h

\* "new CollationSettings" and other small objects: succeeds or returns NULL.
NewSucceeds == IF AllocMayFail THEN BOOLEAN ELSE {TRUE}

-----------------------------------------------------------------------------
(* getFastLatinOptions(): -1 disables the fast path.  It is disabled when  *)
(* the reorder permutation changes the order of the groups up to Latin     *)
(* (space, punctuation, symbols, currency, digits): moving a script such   *)
(* as Greek leaves them in order, moving the digit group does not.  A      *)
(* reorder table is represented by its codes; "digt" is                    *)
(* UCOL_REORDER_CODE_DIGIT.                                                *)

\* The options value -1: all of its fields are -1 / "off".
FastLatinOff == [miniVarTop |-> -1, strength |-> "off", alternate |-> "off"]

PermutesGroupsBeforeLatin(codes) == \E i \in DOMAIN codes : codes[i] = "digt"

FastLatinOptions(t, s, h) ==
    IF ~HasFastLatinTable[t] THEN FastLatinOff
    ELSE IF s.alternate = "shifted" /\ s.variableTop > FastLatinMaxVarTop THEN FastLatinOff
    ELSE IF PermutesGroupsBeforeLatin(Content(h, s.table)) THEN FastLatinOff
    ELSE [miniVarTop |-> IF s.alternate = "shifted" THEN s.variableTop ELSE 0,
          strength |-> s.strength, alternate |-> s.alternate]

-----------------------------------------------------------------------------
(* releaseSettings(): free what the owned settings own, drop them.         *)
(* Returns [heap, settings, owned, cap].                                   *)

\* Mutant: releaseSettings() forgets to free the reorder table.
ReleaseSettingsLeakTable(c, h) ==
    IF ownedSettings[c] = NULL
    THEN [heap |-> h, settings |-> settings[c], owned |-> NULL, cap |-> ownedCap[c]]
    ELSE LET o == ownedSettings[c]
             d == DefaultSettings(tailoring[c])
         IN [heap |-> IF o.codes # d.codes THEN FreePtr(h, o.codes) ELSE h,
             settings |-> NULL, owned |-> NULL, cap |-> 0]

ReleaseSettings(c, h) ==
    IF ownedSettings[c] = NULL
    THEN [heap |-> h, settings |-> settings[c], owned |-> NULL, cap |-> ownedCap[c]]
    ELSE LET o == ownedSettings[c]
             d == DefaultSettings(tailoring[c])
             h1 == IF o.table # d.table THEN FreePtr(h, o.table) ELSE h
             h2 == IF o.codes # d.codes THEN FreePtr(h1, o.codes) ELSE h1
         IN [heap |-> h2, settings |-> NULL, owned |-> NULL, cap |-> 0]

(* cloneSettings(otherSettings): the set of possible results, one per      *)
(* outcome of its allocations.  base is the collator's state before the    *)
(* call, which every failed allocation leaves as it was.                   *)

CloneSettings(t, os, base) ==
    LET d == DefaultSettings(t)
        \* memcmp/memcpy read the table when it is not NULL, the codes when
        \* the length is not 0
        h0 == LET h == IF os.table # NULL THEN ReadPtr(base.heap, os.table) ELSE base.heap
              IN IF os.len > 0 THEN ReadPtr(h, os.codes) ELSE h
        \* the table: NULL, the tailoring's table if equal, or a new copy
        tableOutcomes ==
            IF os.table = NULL THEN {[ok |-> TRUE, ptr |-> NULL, heap |-> h0]}
            ELSE IF d.table # NULL /\ Content(h0, d.table) = Content(h0, os.table)
            THEN {[ok |-> TRUE, ptr |-> d.table, heap |-> h0]}
            ELSE {IF a = NULL THEN [ok |-> FALSE, ptr |-> NULL, heap |-> h0]
                  ELSE [ok |-> TRUE, ptr |-> a, heap |-> Malloc(h0, a, Content(h0, os.table))]
                  : a \in MallocResults(h0, {})}
        codesOutcomes(tr) ==
            IF os.len = 0 THEN {[ok |-> TRUE, ptr |-> os.codes, heap |-> tr.heap, cap |-> base.cap]}
            ELSE IF os.len = d.len /\ Content(h0, d.codes) = Content(h0, os.codes)
            THEN {[ok |-> TRUE, ptr |-> d.codes, heap |-> tr.heap, cap |-> base.cap]}
            ELSE {IF a = NULL THEN [ok |-> FALSE, ptr |-> NULL, heap |-> tr.heap, cap |-> base.cap]
                  ELSE [ok |-> TRUE, ptr |-> a, cap |-> os.len,
                        heap |-> Malloc(tr.heap, a, Content(h0, os.codes))]
                  : a \in MallocResults(tr.heap, {tr.ptr})}
    IN {[base EXCEPT !.heap = h0] : ok \in NewSucceeds \ {TRUE}}
       \cup
       UNION {IF ~tr.ok THEN {[base EXCEPT !.heap = h0]}
              ELSE {IF ~cr.ok THEN [base EXCEPT !.heap = h0]   \* LocalArray frees the new table
                    ELSE [heap |-> cr.heap, settings |-> "owned", cap |-> cr.cap,
                          owned |-> [os EXCEPT !.table = tr.ptr, !.codes = cr.ptr]]
                    : cr \in codesOutcomes(tr)}
              : tr \in tableOutcomes}

-----------------------------------------------------------------------------
Init ==
    /\ alive = [c \in Colls |-> FALSE]
    /\ tailoring = [c \in Colls |-> CHOOSE t \in Tailorings : TRUE]
    /\ settings = [c \in Colls |-> NULL]
    /\ ownedSettings = [c \in Colls |-> NULL]
    /\ ownedCap = [c \in Colls |-> 0]
    /\ explicitAttrs = [c \in Colls |-> {}]
    /\ fastLatin = [c \in Colls |-> FastLatinOff]
    /\ refs = [t \in Tailorings |-> 1]
    /\ heap = [alloc |-> {}, content |-> [a \in Addr |-> <<>>], fault |-> "none"]

\* Writes the collator's fields from a result record r.
SetColl(c, r) ==
    /\ heap' = r.heap
    /\ settings' = [settings EXCEPT ![c] = r.settings]
    /\ ownedSettings' = [ownedSettings EXCEPT ![c] = r.owned]
    /\ ownedCap' = [ownedCap EXCEPT ![c] = r.cap]

\* Mutant: the constructor leaves fastLatinOptions at its initial -1.
OpenNoFastLatin(c, t) ==
    /\ ~alive[c]
    /\ alive' = [alive EXCEPT ![c] = TRUE]
    /\ tailoring' = [tailoring EXCEPT ![c] = t]
    /\ settings' = [settings EXCEPT ![c] = "default"]
    /\ explicitAttrs' = [explicitAttrs EXCEPT ![c] = {}]
    /\ refs' = [refs EXCEPT ![t] = @ + 1]
    /\ fastLatin' = [fastLatin EXCEPT ![c] = FastLatinOff]
    /\ UNCHANGED <<ownedSettings, ownedCap, heap>>

\* RuleBasedCollator(const CollationTailoring *t)
Open(c, t) ==
    /\ ~alive[c]
    /\ alive' = [alive EXCEPT ![c] = TRUE]
    /\ tailoring' = [tailoring EXCEPT ![c] = t]
    /\ settings' = [settings EXCEPT ![c] = "default"]
    /\ explicitAttrs' = [explicitAttrs EXCEPT ![c] = {}]
    /\ refs' = [refs EXCEPT ![t] = @ + 1]
    /\ fastLatin' = [fastLatin EXCEPT ![c] = FastLatinOptions(t, DefaultSettings(t), heap)]
    /\ UNCHANGED <<ownedSettings, ownedCap, heap>>

\* RuleBasedCollator(const RuleBasedCollator &other)
Clone(c, o) ==
    /\ alive[o] /\ ~alive[c]
    /\ LET base == [heap |-> heap, settings |-> "default", owned |-> NULL, cap |-> 0]
       IN \E r \in IF ownedSettings[o] = NULL THEN {base}
                   ELSE CloneSettings(tailoring[o], ownedSettings[o], base) :
            SetColl(c, r)
    /\ alive' = [alive EXCEPT ![c] = TRUE]
    /\ tailoring' = [tailoring EXCEPT ![c] = tailoring[o]]
    /\ explicitAttrs' = [explicitAttrs EXCEPT ![c] = explicitAttrs[o]]
    /\ fastLatin' = [fastLatin EXCEPT ![c] = fastLatin[o]]
    /\ refs' = [refs EXCEPT ![tailoring[o]] = @ + 1]

\* Mutant: operator= takes a reference to the new tailoring but keeps the old one's.
SwitchRefsNoRemove(c, t) ==
    IF t # tailoring[c] THEN [refs EXCEPT ![t] = @ + 1] ELSE refs

\* operator=: tailoring->removeRef(); t->addRef() when the tailoring changes.
SwitchRefs(c, t) ==
    IF t # tailoring[c] THEN [refs EXCEPT ![tailoring[c]] = @ - 1, ![t] = @ + 1] ELSE refs

\* operator=(const RuleBasedCollator &other)
Assign(c, o) ==
    /\ alive[c] /\ alive[o] /\ c # o
    /\ LET rel == ReleaseSettings(c, heap)
           t == tailoring[o]
           base == IF t # tailoring[c] THEN [rel EXCEPT !.settings = "default"] ELSE rel
       IN /\ \E r \in IF ownedSettings[o] = NULL THEN {base}
                      ELSE CloneSettings(t, ownedSettings[o], base) :
               SetColl(c, r)
          /\ tailoring' = [tailoring EXCEPT ![c] = t]
          /\ refs' = SwitchRefs(c, t)
    /\ explicitAttrs' = [explicitAttrs EXCEPT ![c] = explicitAttrs[o]]
    /\ fastLatin' = [fastLatin EXCEPT ![c] = fastLatin[o]]
    /\ UNCHANGED alive

\* Mutant: the destructor releases its tailoring reference twice.
DestroyRemoveRefTwice(c) ==
    /\ alive[c]
    /\ LET rel == ReleaseSettings(c, heap)
       IN /\ heap' = rel.heap
          /\ refs' = [refs EXCEPT ![tailoring[c]] = @ - 2]
    /\ alive' = [alive EXCEPT ![c] = FALSE]
    /\ settings' = [settings EXCEPT ![c] = NULL]
    /\ ownedSettings' = [ownedSettings EXCEPT ![c] = NULL]
    /\ ownedCap' = [ownedCap EXCEPT ![c] = 0]
    /\ explicitAttrs' = [explicitAttrs EXCEPT ![c] = {}]
    /\ fastLatin' = [fastLatin EXCEPT ![c] = FastLatinOff]
    /\ tailoring' = [tailoring EXCEPT ![c] = CHOOSE t \in Tailorings : TRUE]

\* ~RuleBasedCollator()
Destroy(c) ==
    /\ alive[c]
    /\ LET rel == ReleaseSettings(c, heap)
       IN /\ heap' = rel.heap
          /\ refs' = [refs EXCEPT ![tailoring[c]] = @ - 1]
    /\ alive' = [alive EXCEPT ![c] = FALSE]
    /\ settings' = [settings EXCEPT ![c] = NULL]
    /\ ownedSettings' = [ownedSettings EXCEPT ![c] = NULL]
    /\ ownedCap' = [ownedCap EXCEPT ![c] = 0]
    /\ explicitAttrs' = [explicitAttrs EXCEPT ![c] = {}]
    /\ fastLatin' = [fastLatin EXCEPT ![c] = FastLatinOff]
    /\ tailoring' = [tailoring EXCEPT ![c] = CHOOSE t \in Tailorings : TRUE]

-----------------------------------------------------------------------------
(* ensureOwnedSettings(): the owned settings after a successful call (a    *)
(* copy of the defaults when there were none).  When "new" fails the call  *)
(* returns FALSE and the setter returns without any change: a stutter step *)
(* that the actions below leave out.                                       *)

EnsureOwnedOK(c) == ownedSettings[c] # NULL \/ TRUE \in NewSucceeds
OwnedAfterEnsure(c) ==
    IF ownedSettings[c] = NULL THEN DefaultSettings(tailoring[c]) ELSE ownedSettings[c]
\* ensureOwnedSettings() points "settings" at the new object only when it
\* creates one; an existing ownedSettings leaves "settings" as it was.
SettingsAfterEnsure(c) == IF ownedSettings[c] = NULL THEN "owned" ELSE settings[c]

\* setAttributeDefault / setAttributeExplicitly
Explicit(c, key, isDefault) ==
    explicitAttrs' = [explicitAttrs EXCEPT ![c] = IF isDefault THEN @ \ {key}
                                                               ELSE @ \cup {key}]

\* setAttribute(attr, value)
SetAttribute(c, attr, v) ==
    /\ alive[c] /\ settings[c] # NULL
    /\ LET t == tailoring[c] IN
       \/ /\ v = Eff(c)[attr]
          /\ explicitAttrs' = [explicitAttrs EXCEPT ![c] = @ \cup {attr}]
          /\ UNCHANGED <<settings, ownedSettings, fastLatin, heap>>
       \/ /\ v # Eff(c)[attr] /\ ownedSettings[c] = NULL /\ v = DefaultValue
          /\ Explicit(c, attr, TRUE)
          /\ UNCHANGED <<settings, ownedSettings, fastLatin, heap>>
       \/ /\ v # Eff(c)[attr] /\ ~(ownedSettings[c] = NULL /\ v = DefaultValue)
          /\ EnsureOwnedOK(c)
          /\ LET o == [OwnedAfterEnsure(c) EXCEPT
                          ![attr] = IF v = DefaultValue THEN DefaultSettings(t)[attr] ELSE v]
             IN /\ ownedSettings' = [ownedSettings EXCEPT ![c] = o]
                /\ settings' = [settings EXCEPT ![c] = SettingsAfterEnsure(c)]
                /\ fastLatin' = [fastLatin EXCEPT ![c] = FastLatinOptions(t, o, heap)]
          /\ Explicit(c, attr, v = DefaultValue)
          /\ UNCHANGED heap
    /\ UNCHANGED <<alive, tailoring, ownedCap, refs>>

\* setVariableTop(varTop): the string and the uint32_t forms.  A string
\* that does not map to exactly one CE fails before any change.
SetVariableTop(c, v) ==
    /\ alive[c] /\ settings[c] # NULL
    /\ v # Eff(c).variableTop
    /\ EnsureOwnedOK(c)
    /\ LET t == tailoring[c]
           o == [OwnedAfterEnsure(c) EXCEPT !.variableTop = v]
       IN /\ ownedSettings' = [ownedSettings EXCEPT ![c] = o]
          /\ settings' = [settings EXCEPT ![c] = SettingsAfterEnsure(c)]
          /\ Explicit(c, "variableTop", v = DefaultVarTop)
          /\ fastLatin' = [fastLatin EXCEPT ![c] = FastLatinOptions(t, o, heap)]
    /\ UNCHANGED <<alive, tailoring, ownedCap, refs, heap>>

(* setReorderCodes(codes, length) after ensureOwnedSettings(), with codes  *)
(* neither empty-with-nothing-set nor DEFAULT: the possible results        *)
(* [heap, owned, cap, done], done = FALSE for an error return.             *)

ReorderOutcomes(c, codes) ==
    LET d == DefaultSettings(tailoring[c])
        o == OwnedAfterEnsure(c)
        cap == ownedCap[c]
        fail(h, ow) == [heap |-> h, owned |-> ow, cap |-> cap, done |-> FALSE]
    IN IF codes = <<>>
       THEN \* turn reordering off: a NULL permutation
            {[heap |-> IF o.table # d.table THEN FreePtr(heap, o.table) ELSE heap,
              owned |-> [o EXCEPT !.table = IF o.table # d.table THEN NULL ELSE @, !.len = 0],
              cap |-> cap, done |-> TRUE]}
       ELSE LET newTable == o.table = d.table
                tables == IF newTable THEN MallocResults(heap, {}) ELSE {o.table}
            IN UNION {
               IF newTable /\ ta = NULL THEN {fail(heap, o)}
               ELSE LET h1 == IF newTable THEN Malloc(heap, ta, <<>>) ELSE heap
                        h2 == WritePtr(h1, ta, codes)          \* makeReorderTable
                        o2 == [o EXCEPT !.table = ta, !.len = Len(codes)]
                    IN IF Len(codes) <= cap
                       THEN {[heap |-> WritePtr(h2, o.codes, codes), owned |-> o2,
                              cap |-> cap, done |-> TRUE]}
                       ELSE {IF ca = NULL
                             THEN fail(IF newTable THEN FreePtr(h2, ta) ELSE h2, o)
                             ELSE LET h3 == Malloc(h2, ca, codes)
                                  IN [heap |-> IF o.codes # d.codes THEN FreePtr(h3, o.codes) ELSE h3,
                                      owned |-> [o2 EXCEPT !.codes = ca],
                                      cap |-> Len(codes) + 20, done |-> TRUE]
                             : ca \in MallocResults(h2, {ta})}
               : ta \in tables}

(* setReorderCodes(UCOL_REORDER_CODE_DEFAULT) with owned settings: back   *)
(* to the default table and codes.  Returns [heap, owned, cap].           *)

\* Mutant: the owned codes are freed but the pointer is not reset.
DefaultReorderKeepsCodes(c) ==
    LET o == ownedSettings[c]
        d == DefaultSettings(tailoring[c])
        h1 == IF o.table # d.table THEN FreePtr(heap, o.table) ELSE heap
    IN [heap |-> IF o.codes # d.codes THEN FreePtr(h1, o.codes) ELSE h1,
        owned |-> [o EXCEPT !.table = d.table, !.len = d.len],
        cap |-> IF o.codes # d.codes THEN 0 ELSE ownedCap[c]]

\* Mutant: the reorder table is left as it is (only the codes are reset).
DefaultReorderKeepsTable(c) ==
    LET o == ownedSettings[c]
        d == DefaultSettings(tailoring[c])
    IN [heap |-> IF o.codes # d.codes THEN FreePtr(heap, o.codes) ELSE heap,
        owned |-> [o EXCEPT !.codes = d.codes, !.len = d.len],
        cap |-> IF o.codes # d.codes THEN 0 ELSE ownedCap[c]]

DefaultReorder(c) ==
    LET o == ownedSettings[c]
        d == DefaultSettings(tailoring[c])
        h1 == IF o.table # d.table THEN FreePtr(heap, o.table) ELSE heap
    IN [heap |-> IF o.codes # d.codes THEN FreePtr(h1, o.codes) ELSE h1,
        owned |-> [o EXCEPT !.table = d.table, !.codes = d.codes, !.len = d.len],
        cap |-> IF o.codes # d.codes THEN 0 ELSE ownedCap[c]]

\* setReorderCodes(reorderCodes, length)
SetReorderCodes(c, codes) ==
    /\ alive[c] /\ settings[c] # NULL
    /\ ~(codes = <<>> /\ Eff(c).len = 0)
    /\ LET t == tailoring[c]
           d == DefaultSettings(t)
       IN \/ /\ codes = <<DefaultCode>> /\ ownedSettings[c] = NULL
             /\ fastLatin' = [fastLatin EXCEPT ![c] = FastLatinOptions(t, d, heap)]
             /\ UNCHANGED <<settings, ownedSettings, ownedCap, heap>>
          \/ /\ codes = <<DefaultCode>> /\ ownedSettings[c] # NULL
             /\ LET r == DefaultReorder(c)
                IN /\ heap' = r.heap
                   /\ ownedSettings' = [ownedSettings EXCEPT ![c] = r.owned]
                   /\ ownedCap' = [ownedCap EXCEPT ![c] = r.cap]
                   /\ fastLatin' = [fastLatin EXCEPT ![c] = FastLatinOptions(t, r.owned, r.heap)]
             /\ UNCHANGED settings
          \/ /\ codes # <<DefaultCode>>
             /\ EnsureOwnedOK(c)
             /\ \E r \in ReorderOutcomes(c, codes) :
                   /\ heap' = r.heap
                   /\ ownedSettings' = [ownedSettings EXCEPT ![c] = r.owned]
                   /\ settings' = [settings EXCEPT ![c] = SettingsAfterEnsure(c)]
                   /\ ownedCap' = [ownedCap EXCEPT ![c] = r.cap]
                   /\ fastLatin' = IF r.done
                                   THEN [fastLatin EXCEPT ![c] = FastLatinOptions(t, r.owned, r.heap)]
                                   ELSE fastLatin
    /\ UNCHANGED <<alive, tailoring, explicitAttrs, refs>>

-----------------------------------------------------------------------------
Next ==
    \/ \E c \in Colls, t \in Tailorings : Open(c, t)
    \/ \E c, o \in Colls : Clone(c, o) \/ Assign(c, o)
    \/ \E c \in Colls : Destroy(c)
    \/ \E c \in Colls, a \in Attrs, v \in {DefaultValue} : SetAttribute(c, a, v)
    \/ \E c \in Colls, a \in Attrs : \E v \in AttrValues[a] : SetAttribute(c, a, v)
    \/ \E c \in Colls, v \in VarTops : SetVariableTop(c, v)
    \/ \E c \in Colls, r \in ReorderInputs : SetReorderCodes(c, r)

Spec == Init /\ [][Next]_vars

-----------------------------------------------------------------------------
(* Properties.                                                             *)

Ptrs == {NULL} \cup Addr \cup {<<"tailoring", k, t>> : k \in {"table", "codes"}, t \in Tailorings}
SettingsRec == [strength : AttrValues.strength, alternate : AttrValues.alternate,
                variableTop : VarTops, table : Ptrs, codes : Ptrs, len : 0..2]

TypeOK ==
    /\ alive \in [Colls -> BOOLEAN]
    /\ tailoring \in [Colls -> Tailorings]
    /\ settings \in [Colls -> {"default", "owned", NULL}]
    /\ ownedSettings \in [Colls -> SettingsRec \cup {NULL}]
    /\ ownedCap \in [Colls -> 0..22]
    /\ explicitAttrs \in [Colls -> SUBSET ExplicitKeys]
    /\ refs \in [Tailorings -> Nat]
    /\ heap.alloc \subseteq Addr

\* Every live collator has a settings object to read: compare, getAttribute
\* and the setters all dereference "settings" (operator= must not leave it
\* NULL after releaseSettings()).
SettingsNonNull == \A c \in Colls : alive[c] => settings[c] # NULL

\* The collators never free, write or read memory they do not own: no
\* double free, no free of or write to the tailoring's arrays, no write
\* through NULL, no access after free.
NoMemoryFault == heap.fault = "none"

\* Every heap array is owned by exactly one field of one live collator's
\* owned settings (no leak, no sharing), and no live collator points at a
\* freed array.
Holders(a) == {<<c, f>> \in Colls \X {"table", "codes"} :
                 alive[c] /\ ownedSettings[c] # NULL /\ ownedSettings[c][f] = a}
HeapOwnership ==
    /\ \A a \in heap.alloc : Cardinality(Holders(a)) = 1
    /\ \A a \in Addr \ heap.alloc : Holders(a) = {}

\* The cached fastLatinOptions is what getFastLatinOptions() computes from
\* the settings the collator currently uses, so the fast path in doCompare
\* compares with the same options as the full path.
FastLatinCached ==
    \A c \in Colls : alive[c] /\ settings[c] # NULL =>
        fastLatin[c] = FastLatinOptions(tailoring[c], Eff(c), heap)

\* The reorder table in effect is the permutation built from the reorder
\* codes the settings report (NULL, i.e. no permutation, when there are none).
ReorderConsistent ==
    \A c \in Colls : alive[c] /\ settings[c] # NULL =>
        LET s == Eff(c)
        IN Content(heap, s.table) = IF s.len = 0 THEN <<>> ELSE Content(heap, s.codes)

\* Each tailoring's reference count is the cache's reference plus one per
\* live collator that uses it.
RefCountExact ==
    \A t \in Tailorings :
        refs[t] = 1 + Cardinality({c \in Colls : alive[c] /\ tailoring[c] = t})
=============================================================================
