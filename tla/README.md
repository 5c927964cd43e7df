# TLA+ models of the ICU collation core

This directory holds TLA+ specifications of the parts of this ICU tree
that keep state or run algorithms TLC can check exhaustively on small inputs.
The centre of the project is `RuleBasedCollator`
(`src/collv2/source/i18n/rulebasedcollator.cpp`). Around it sit the string-span
helpers of `UnicodeSet` (`src/fastset/source/common/unisetspan.cpp`), the init-once
singletons (`src/10051/source/common/mutex.cpp`) and the legacy `CollationKey`
(`src/source/i18n/sortkey.cpp`). Apart from the collation code, the project also models
`RuleBasedTimeZone` (`src/rbtz/source/i18n/rbtz.cpp`), `PluralRules`
(`src/10273/source/i18n/plurrule.cpp`) and the Unicode character names
(`src/source/common/unames.c`).

## The system's parts and how they interact

| Part | Source | State | Operations |
|---|---|---|---|
| Collator settings lifecycle | rulebasedcollator.cpp 139-720 | `settings` (points at the tailoring's defaults or at `ownedSettings`), `ownedSettings` with its `reorderTable` and `reorderCodes` arrays, `ownedReorderCodesCapacity`, `explicitlySetAttributes`, the cached `fastLatinOptions`, the tailoring's reference count | constructors, copy constructor, `operator=`, destructor, `setAttribute`, `setVariableTop`, `setReorderCodes`, with the internal `ensureOwnedSettings`, `cloneSettings` and `releaseSettings` |
| Comparison | rulebasedcollator.cpp 784-1347 | none between calls (iterators on the stack) | `compare` wrappers, `doCompare` (identical prefix, unsafe backoff, fast-Latin dispatch), `compareNFDIter` |
| Sort keys | rulebasedcollator.cpp 1349-1559 | the caller's `state[2]` between `nextSortKeyPart` calls | `getSortKey`, `getCollationKey`, `nextSortKeyPart` |
| String span | unisetspan.cpp | `OffsetList` circular buffer during a span | `span`, `spanBack`, `spanNot`, `spanNotBack` (UTF-16, UTF-8) |
| Singletons | mutex.cpp | `fInitOnce.fState` 0/1/2, `fInstance`, `fErrorCode` | `getInstance` from concurrent threads |
| CollationKey | sortkey.cpp | `fBytes`, `fCount`, `fCapacity`, `fBogus`, `fHashCode` | copy, assign, `setToBogus`, compare, `hashCode` |
| PluralRules | plurrule.cpp | `mRules` (a `RuleChain` list of keyword, `OrConstraint` list of `AndConstraint` lists), or NULL | `createRules`, `forLocale`, default constructor, `clone`, `operator=`, destructor, `select`, `getKeywords`, `isKeyword`, with the tokenizer `getNextToken`, `checkSyntax` and `parseDescription` |
| Character names | unames.c | the loaded names data (`uCharNamesData`, `uCharNames`, `gLoadErrorCode`) | `u_charName`, `u_getISOComment`, `u_charFromName`, `u_enumCharNames`, `uprv_getMaxCharNameLength`, `uprv_getCharNameCharacters`, `unames_cleanup`, with the lazy `isDataLoaded` and `calcNameSetsLengths` |
| RuleBasedTimeZone | rbtz.cpp | `fInitialRule`, `fHistoricRules`, `fFinalRules`, `fHistoricTransitions`, `fUpToDate` | constructors, `operator=`, `addTransitionRule`, `complete`, `getOffset`, `getNextTransition`, `getPreviousTransition` |

The collator borrows its tailoring: many collators share one
`CollationTailoring`, counted by `addRef`/`removeRef`. Settings are copy-on-write:
a collator reads `settings`, which points at the tailoring's defaults until the first
setter creates `ownedSettings`. The owned settings point at a reorder table
and a code array. Each is one of three things: the tailoring's own (never freed by a
collator), NULL, or a heap array the collator frees. `fastLatinOptions` is a
cache of the settings. The compare fast path uses it, so every change of settings
has to refresh it.

Everything else in `src/` is listed in `PROJECT.json` as not modelled, with the reason:
currency plural info, decimal format symbols, spoof data, tools and headers.

## Modules

### `CollatorSettings` (`MCCollatorSettings` for TLC)

Constants: a set of collator slots `Colls`, tailorings `Tailorings` with their
default reorder codes, heap addresses `Addr`, and whether malloc may fail
(`AllocMayFail`). Variables, one per field of the code:

| Variable | Code |
|---|---|
| `alive[c]` | the object exists (between constructor and destructor) |
| `tailoring[c]` | `tailoring` |
| `settings[c]` | `settings`: `"default"` = `&tailoring->settings`, `"owned"` = `ownedSettings`, `NULL` |
| `ownedSettings[c]` | `ownedSettings`: NULL, or a record of strength, alternate, variableTop, `reorderTable`, `reorderCodes`, `reorderCodesLength` |
| `ownedCap[c]` | `ownedReorderCodesCapacity` |
| `explicitAttrs[c]` | `explicitlySetAttributes` |
| `fastLatin[c]` | `fastLatinOptions` |
| `refs[t]` | the tailoring's reference count (the cache holds one) |
| `heap` | allocated addresses, their contents, and the first memory fault |

A pointer is NULL, a heap address, or `<<"tailoring", kind, t>>` for the
tailoring's own arrays. A reorder table is represented by the code list it was
built from (`makeReorderTable` is a function of the codes). The options word keeps
two attributes, strength and alternate; the other flags behave alike. A free,
write or read through a bad pointer does not stop the model: it records the fault
in `heap.fault`, and `NoMemoryFault` asks that none happens.

Actions: `Open` (constructor from a tailoring), `Clone` (copy constructor),
`Assign` (`operator=`), `Destroy` (destructor), `SetAttribute`, `SetVariableTop`,
`SetReorderCodes`. Each one takes the whole method, including the nested
`ensureOwnedSettings`, `cloneSettings`, `releaseSettings` (the operators
`EnsureOwnedOK`, `CloneSettings`, `ReleaseSettings`) and the trailing
`fastLatinOptions = getFastLatinOptions()`. `CloneSettings` and
`ReorderOutcomes` return the set of results, one per outcome of their
allocations. `MallocResults` offers NULL when `AllocMayFail` holds or the pool
is exhausted. Malloc always returns the same free address, because addresses are
only compared for equality. An allocation failure in `ensureOwnedSettings`
makes the setter return before any change, so it is a stutter and left out.

Properties:

* `SettingsNonNull`: a live collator's `settings` is never NULL.
* `NoMemoryFault`: no double free, no free of or write to tailoring data,
  no write through NULL, no access after free.
* `HeapOwnership`: every heap array is held by exactly one field of one live
  collator (no leak, no sharing), and no live collator holds a freed one.
* `FastLatinCached`: the cached `fastLatinOptions` equals
  `getFastLatinOptions()` of the settings in use.
* `ReorderConsistent`: the reorder table in effect is the permutation of the
  reported codes, and none when the length is 0.
* `RefCountExact`: each tailoring's count is 1 plus its live collators.

### `Singletons` (`MCSingletons` for TLC)

`SimpleSingleton::getInstance` and `TriStateSingleton::getInstance` in
`mutex.cpp`, called by concurrent threads. Constants: `Threads`, `Singletons`,
`Kind` (simple or tri-state per singleton), `MaxCalls` per thread and
`MaxResets`. Per singleton: `state` is `fInitOnce.fState` (0 = not started,
1 = in progress, 2 = done), `instance` is `fInstance`, and `errCode` is
`fErrorCode`. Per thread: `pc` (the step of `getInstance` it is at), its
target, error code and result. The instantiator may succeed or fail. Each
thread step is an action: `Call`, the tri-state `FastPath`, `PreInit`,
`Instantiate`, `PostInit` and `ReturnInstance`. `Reset` is
`TriStateSingleton::reset`, taken while no thread is inside. `u_initImplPreInit`
and `u_initImplPostInit` are not in this tree. They are modelled from their
contract, marked `spec_modelled` in the map: claim the state 0 -> 1, wait
while it is 1, and see 2 as done; PostInit publishes 2 or goes back to 0.

Properties: `SuccessHasInstance` (a caller left with a success code has an
instance; `SimpleSuccessHasInstance` is the same for `SimpleSingleton` calls only), `SameInstance` (all callers that get an instance get the same one),
`InstantiateOnce` (the tri-state instantiator runs at most once per reset),
`InstanceStable` (action property: a published instance is never replaced) and
`CallsReturn` (liveness: every call returns). `NoInstanceRace` (no thread's
final read of `fInstance` runs while another thread's instantiator stores
into it) is checked only by a documented configuration, which violates it. Fairness: weak fairness on each
thread's step. A thread that can move, moves: the waits in PreInit end when
the owner finishes, and the OS scheduler runs every runnable thread.

### `StringSpan` (`MCStringSpan` for TLC)

`UnicodeSetStringSpan` in `unisetspan.cpp`: spans over a UnicodeSet holding
multi-unit strings as well as code points. The set (`cps`, `strs`) is chosen in
`Init` from small candidate sets. `Build(w)` is the constructor for one of the
"which" variants (UTF-16 or UTF-8, forward or backward, contained or not, or
ALL). It computes:
- the span-length bytes in both encodings, with their `LONG_SPAN` and
  `ALL_CP_CONTAINED` sentinels; without ALL the four arrays are one, as in
  the code;
- the maximum relevant string length in units and in bytes, and the UTF-8
  strings;
- the spanNotSet, through `AddToSpanNotSet` calls in the code's order. The
  clone in each call may fail when `AllocMayFail` holds.

The calls `CallSpan`, `CallSpanBack`, `CallSpanNot`, `CallSpanNotBack` and
their `...UTF8` twins (in each span condition the variant supports) record
their result in `last`. The span functions are const, so the model takes one
call per built object; the next call follows a rebuild. The algorithms are
RECURSIVE operators with the loops of the code: `SpanLoop`/`TryStrings`/
`TryOverlap` for `span`, their mirror images for `spanBack`, `SpanNotLoop` and
`SpanNotBackLoop`, and the same with suffix `8` for the UTF-8 functions. A
UTF-8 byte is a pair (code point, index in its encoding), so a byte is a
trail byte when its index exceeds 1; `U8_IS_TRAIL`, `U8_BACK_1` and
`spanOneUTF8` work on that.
The `OffsetList` circular buffer is a record with its array, capacity, start
and length. An index outside the array, or into the static list that a failed
malloc left uninitialized, is recorded as a fault. Code units are model
characters and none is a surrogate. In UTF-8, `a`, `b` and `c` take one, two
and three bytes. `LONG_SPAN` (0xfe) and the 16-entry static list are constants
(2 and 2 in the runs), so three-unit strings and two-byte code points reach
the saturation, and strings of three units or bytes reach the malloc'd list.
The properties compare a result with the reference offset converted to the
call's encoding (`Units`).

Reference definitions: `IsConcat` (a text is a concatenation of set elements),
`RefSpan`/`RefSpanBack` (longest concatenation prefix/suffix), and
`RefSpanNot`/`RefSpanNotBack` (the first position where an element starts,
the last where one ends). The code's USET_SPAN_SIMPLE lets strings overlap back
into the preceding code-point span, so it is not the greedy longest match from
position 0. It is checked for soundness instead: what it spans is a concatenation.

### `CollationData` and `CollatorCompare` (`MCCollatorCompare` for TLC)

`CollatorCompare` models the comparison and sort-key entry points of
`rulebasedcollator.cpp` (784-1562). `CollationData` holds their collaborators
that are not in this tree, modelled from the spec and marked `spec_modelled`:
- the collation data: the CEs of each code point, contractions and the
  unsafe-backward set;
- the `CollationIterator`, which matches the longest contraction first;
- `compareUpToQuaternary`, with primary weights first, then secondary weights,
  read backwards when French is on;
- NFD decomposition and UTF-8 decoding with U+FFFD;
- the `SortKeyByteSink` with its fixed-buffer overflow rule (`IgnoreBytes`,
  `GetRemainingCapacity`, `Overflowed`);
- the identical-level run encoding, as a fixed two-byte form per code point
  that keeps BOCSU's order and prefix-freedom.

A CE is `[p, s]`. Tertiary and quaternary weights are abstracted away.

From the code:
- the identical-prefix scan (`EqualPrefixLength`);
- the back-up over unsafe-backward units (`BackUpUnsafe16`);
- the UTF-8 trail-byte back-up and `U8_PREV_OR_FFFD` back-up
  (`BackUpTrail`, `BackUpUnsafe8`);
- the fast-Latin test for both encodings;
- `compareNFDIter` with `NFDIterator`'s `nextCodePoint`,
  `nextDecomposedCodePoint` and `nextRawCodePoint`;
- `compare(UCharIterator&)`, the compare wrappers, `getSortKey`,
  `writeSortKey`, `writeIdenticalLevel`;
- `nextSortKeyPart` with `PartLevelCallback`.

The fast-Latin comparison is the one nondeterministic collaborator: it either
bails out or returns the comparison of the two suffixes.

State: the pair `left`/`right` and the `settings` (strength, French,
fast-Latin on or off) are fixed in `Init`. The other variables are:
- `cmp`: the result of every compare entry point;
- `keys`: both sort keys;
- `partState`: the caller's `state[2]`;
- `parts`: every byte written to `dest`, in order;
- `partSum`: the sum of the return values;
- `partsDone`: a call returned less than its count, so the caller stops.

Actions:
- `Compare`: every compare entry point at once;
- `GetSortKeys`;
- `CallNextSortKeyPart(count)`, with `count` taken from `PartCounts` on every call.

Properties:
- `CompareCorrect`: every entry point returns the comparison of the whole
  texts (`RefCompare`), although the code skips the identical prefix and
  restarts after backing up.
- `SortKeyOrder`: the byte order of the sort keys is the collation order.
- `PartsMatchSortKey`: the concatenated parts are the sort key followed by
  zeros, and the returned values add up to the key length without its
  terminator.

### `CollationKey` and `CollationKeyValue` (`MCCollationKey` for TLC)

`CollationKey` models the legacy key object of `sortkey.cpp`. Constants: key
slots `Keys`, the byte strings `Values` given to the byte-array constructor,
`Garbage` (the bytes a read past the end of an array may return), and
`AllocMayFail`. The one variable `keys[k]` is a record of the five fields
`fCount`, `fCapacity`, `fBogus`, `fHashCode` and `fBytes` (NULL or a byte
sequence of length `fCapacity`).

Actions, one per public operation: `ConstructDefault`, `ConstructFromBytes`,
`ConstructCopy` (the old object in the slot is destroyed first), `Assign`
(`operator=`, with the nested `ensureCapacity`, `setToBogus` and `reset`),
`ResetKey`, `SetToBogusKey`, and `HashCode`, which computes and caches the
hash. `compareTo` and `operator==` change nothing and are operators used by the
properties. `setToBogus` is modelled as the code has it: it clears the fields
but never sets `fBogus`.

`CollationKeyValue` is the abstract specification of a key: a byte string,
and `op`, the last call with its arguments. Each abstract action says what
its call leaves in its key:
- the constructor from bytes leaves those bytes;
- the copy constructor and `operator=` leave the other key's bytes;
- the default constructor, `reset()` and `setToBogus()` leave the empty key;
- `hashCode()` leaves the bytes as they were.

No call changes another key. When `AllocMayFail` is set, a call that
allocates may leave the empty key instead. `CollationKey` keeps the same
`op` as a history variable: each action records its call, and nothing reads
it. The refinement mapping takes a key's value to be its first `fCount`
bytes. `isBogus()` is not in the abstract view: nothing in `sortkey.cpp`
sets `fBogus`, so it is FALSE for every key. Its consequence, a failed
`operator=` that goes on as if it had succeeded, is the
`MCCollationKey_oom.cfg` finding below.

Properties:

* `EqualKeysEqualHash`: keys that `operator==` calls equal have equal
  `hashCode()`, whether the hash was cached before a copy, assignment or
  reset, or is computed now, and whatever byte follows the array.
* `CompareToOrder`: `compareTo` orders keys as their byte strings, empty and
  bogus keys included, and says EQUAL exactly when `operator==` holds.
* `RefinesValue`: every call is the step `CollationKeyValue` promises for
  it. This covers the bytes that `ensureCapacity`, `memcpy` and the copied
  `fCount` leave after a copy or an assignment, and the other keys staying
  unchanged.

### `RuleBasedTimeZone` (`MCRuleBasedTimeZone` for TLC)

A zone is built from an initial rule. Transition rules are then added one by
one, and `complete()` turns them into `fHistoricTransitions`: a list of
(time, from rule, to rule) that `getOffset` and the transition searches read.
`fUpToDate` records whether the list is current. `TimeZoneRule` is not in this
tree. A rule is modelled as a record of its name, raw offset, DST savings,
whether it is final (an annual rule with no end year), and a finite set of
start times in UTC. `NextStart` and `PrevStart` stand for `getNextStart` and
`getPreviousStart`. The annual rules list their starts up to well past the
dates the properties query.

Constants: zone slots `Zones`, the `InitialRules` and `TransitionRules`, the
bound `MaxHistoric` on historic rules per zone, `MinMillis`, `AllocMayFail`
and the `Dates` the properties query. The variable `zone[z]` is a record of
the five fields. A vector that does not exist is NULL.

Actions:
- `Construct` is the constructor.
- `Clone` is the copy constructor, which `clone()` uses. It keeps only the
  initial rule.
- `Assign` is `operator=`, with `copyRules` returning NULL when an allocation
  fails.
- `AddTransitionRule`: a third final rule is refused.
- `Complete` is `complete()`, which `getNextTransition` and
  `getPreviousTransition` also call. The historic loop is the recursive
  `HistoricLoop`, which picks the earliest next start of the rules in the
  order the code visits them. The final section adds one transition for each
  final rule. A failed allocation, or a final rule with no next start, goes to
  `cleanup`.

The queries are operators:
- `GetOffset` is `getOffset(date, local)`, with `FindRuleInFinal`.
- `FindNext` and `FindPrev` model `findNext` and `findPrev`. They are
  recursive, like the code, and skip transitions that change only the name.

The properties compare with `RuleInEffect`: the transition rule whose latest
start is at or before the date, or the initial rule before every start.

Properties:

* `TransitionsChained`: an up-to-date zone's list is one chain, in increasing
  time, starting at the initial rule.
* `GetOffsetCorrect`: once `complete()` has built one chain, `getOffset`
  returns the offsets of the rule in effect at every date.
* `TransitionSearchCorrect`: on such a zone, `findNext` and `findPrev` return
  the nearest dates after and before the base at which the offsets change,
  and the rule in effect from then on.

### `PluralRules` (`MCPluralRules` for TLC)

A `PluralRules` object holds `mRules`, a list of `RuleChain`s: a keyword and
an or-list of and-lists of `AndConstraint`s (operand, `mod`, `is` value or
range list, `not`, `in` or `within`). The variables are `live` (the objects
that exist), `mRules` per object slot (NULL for no rules) and `origin`, the
call that made the object, which the properties read.

The text side is modelled by what it does, on TLC strings:
- `Scan` and `GetNextToken` are `getNextToken`, character by character, with
  `InRange` classifying each character and `GetKeyType` mapping words to
  token types. A run of spaces yields `tEOF` only when it reaches the end of
  the data.
- `Allowed` and `CheckSyntax` are the `checkSyntax` table.
- `ParseLoop` and `ApplyToken` are the loop and switch of
  `parseDescription`, with one operator per case: `AddAnd`, `AddOr`,
  `AddKeyword`, `StartRange`, `AddNumber` and `AddPair` (the comma). The
  parser state keeps `curAndConstraint`, `ruleChain`, `rangeLowIdx` and
  `rangeHiIdx` as the code does.
- `NumberInfo`, `AndFulfilled`, `OrFulfilled`, `ChainSelect` and `Select`
  are `NumberInfo`, the `isFulfilled` methods and `select`. Numbers are
  integers times ten, so they have at most one fraction digit. `fmod` by 0 is
  NaN, which no comparison accepts.

Actions: `Construct` (the default constructor, no rules), `CreateRules`
(parse into a fresh chain; on failure nothing is created), `ForLocale` (parse
the locale's rule; if it is missing, empty or fails, reset the status and
parse `PLURAL_DEFAULT_RULE` into the same chain), `Clone`, `Assign` and
`Delete`. `getRuleFromResource` is not modelled: `LocaleRules` is the set of
(rule text, status) outcomes it can return.

`RefSelect` is a reference reading of the rule syntax over the structured
rule each description was written from (`MCPluralRules` renders every rule to
text). Properties:

* `DescriptionMeaning`: every well-formed description is accepted, every
  rejected one is malformed, and an accepted object, and every copy of it,
  selects for each number what the reference says.
* `FallbackIsDefault`: an object made by `forLocale` from missing or
  unusable locale data has exactly the keyword `other` and selects it for
  every number.
* `AcceptedDescriptionsComplete` (violation run): an accepted description
  ends on a token after which `checkSyntax` admits the end.
* `SelectIsKeyword` (documented configuration only): `select` returns a
  keyword of the object.

### `CharNames` (`MCCharNames` for TLC)

`unames.c` answers three questions from one data file: the name of a code
point (`u_charName`), the code point of a name (`u_charFromName`), and every
named code point of a range (`u_enumCharNames`). Names come from three places,
tried in this order:
- Algorithmic ranges (`AlgRanges`). Type 0 is a prefix plus the code point in
  `variant` hex digits. Type 1 is a prefix plus one element per factor, chosen
  by the mixed-radix digits of the offset. `getAlgName`, `Hex`,
  `FactorIndexes` and `Suffix` compute a name. `enumAlgNames` and
  `findAlgName` do not recompute it: they increment the previous name.
  `IncHex` models the character-wise hex carry and `IncIndexes` the index
  carry with its reset, so the model can tell the two methods apart.
- Stored names, kept in groups of 32 lines (`Groups`). `getGroup` is the
  binary search over group MSBs. `Line` gives a line's bytes: the modern
  name, the Unicode 1.0 name and the ISO comment, separated by `;`, written
  in letters and token bytes. `Tokens` maps a byte (or a lead byte and a
  trail byte) to a letter, a lead byte or a word of `TokenStrings`.
  `ExpandStart` and `ExpandFrom` are `expandName`: skip the fields before
  the requested one, then write letters and token words up to the next `;`.
  For extended names a `;` met before anything was written is skipped
  (`expandName` line 256). `LineTable` expands every line once, for every
  choice. The nibble encoding of line lengths (`expandGroupLengths`) is
  abstracted: `Groups` stores each line's bytes directly.
- Extended names `<category-hex>` (`ExtName`, `ExtWrites`, `ExtFromName`).
  `getCharCat` comes from the constant `CharCat`.

`NameOf` is the name `u_charName` computes. `CharNameResult` adds what it
writes into a caller's buffer: `WriteChars` is the `WRITE_CHAR` macro,
`getAlgName` writes the hex digits directly, `ExtWrites` writes the digits of
`getExtName` backwards, and the capacity passes through the `uint16_t` cast
(`U16`). `FromNameResult` follows `u_charFromName`:
- the 120-byte upper and lower copies;
- the extended parser, including its backward scan for `-` and its signed
  32-bit accumulation (`DashBefore`, `UChar32Of`);
- then the algorithmic ranges;
- then the stored names, through `enumNames` in find mode.

`enumNames` keeps the code's control. `EnumNameCalls` computes the
`enumGroupNames` and `enumExtNames` calls it makes, in order:
- `HeadCalls` for the partial start group;
- `LoopCalls` for the loop over whole groups, with the extended names of the
  gaps between them;
- `TailCalls` for the end group or the extended names after the last group.

`CallNames` then evaluates those calls. `GroupRun` is the `while` loop of
`enumGroupNames`. `EnumSegments` lists the `enumNames` and `enumAlgNames`
calls of `u_enumCharNames` around the algorithmic ranges, and `EnumLoop`
evaluates them. Find mode stops at the first match (`FirstCode`).

`CalcSets` is `calcNameSetsLengths`. It adds the hex digits and `<>-`
(`ExtChars`) to the name set, then the algorithmic ranges (`AlgSets`), then
the category names (`ExtSets`), then every stored line (`GroupSets`,
`LinesSets`, `LineSets`). `NameSetLength` is `calcNameSetLength` over one
`;`-separated field. It goes one byte or token at a time (`NameSetStep`),
with the `tokenLengths` cache, which is shared by all three fields of every
line. A token whose length is cached adds only its length, not its letters.
When the cache's `malloc` fails (`CacheMayFail`), every token adds its
letters. `SET_ADD` only ORs bits, so `SetsAfter` adds to the current sets
what `CalcSets` adds to empty ones (`FreshSets`, computed once).

The state has three parts:
- `data` (`none`, `loaded` or `failed`), for `uCharNames` and
  `gLoadErrorCode`;
- `sets`, for `gMaxNameLength`, `gMaxISOCommentLength`, `gNameSet` and
  `gISOCommentSet`;
- `last`, the result of the call in progress.

Actions:
- `CallCharName`, `CallCharFromName` and `CallEnumCharNames`. Each one
  performs `Load`, which is `isDataLoaded`, only when the code reaches it: no
  load for a code point past `UCHAR_MAX_VALUE` or for an empty range after
  clamping. A load may fail when `LoadMayFail` is true, and the failure is
  sticky, as `gLoadErrorCode` is.
- `CallISOComment`, which is `u_getISOComment`. It writes the third field
  of a stored line like a name.
- `CallGetMaxCharNameLength` and `CallGetCharNameCharacters`. Both run
  `CalcNameSetsLengths`, which returns at once when `gMaxNameLength` is set
  and otherwise loads the data and fills the sets. The second call returns
  the invariant characters of `gNameSet`, as `charSetToUSet` does.
- `Return`, which completes the call.
- `Cleanup`, which is `unames_cleanup` between calls. It unloads loaded
  data but keeps a load error. It resets `gMaxNameLength` but leaves the
  sets, so the next calculation ORs the same characters in again.

Two threads racing in `isDataLoaded` are not modelled. The function reads
`uCharNames` under `umtx_lock`, opens the data outside the lock, and
publishes it under the lock only if no other thread did so first (lines
122-161). A thread that loses the race closes its own copy. Either way every
caller then sees the same loaded data, which is the single `data` variable
of the model. The unlocked read and write of `gLoadErrorCode` only matter
while nothing is loaded. `calcNameSetsLengths` has no lock:
two threads may both compute the sets. This is not modelled either. Both
threads only OR in the same bits and store the same maxima, and
`gMaxNameLength` is stored last ("for threading"). On a weakly ordered
processor a reader could still see it before the sets, and that needs a
memory model TLA+ states only by hand.

Properties:
* `BufferContract`: `u_charName` stores exactly the first
  `min(capacity, length)` characters of the name, where the length is that
  of the full name.
* `FromNameComplete`: every name `u_charName` gives, in upper, lower or mixed
  case, maps back to the least code point with that name.
* `EnumSound`: `u_enumCharNames` reports code points inside the range, in
  ascending order, each with its non-empty name.
* `MaxLengthsBound`: once `calcNameSetsLengths` has run, and until
  `unames_cleanup`, `gMaxNameLength` bounds the length of every name of
  every choice, and `gMaxISOCommentLength` bounds every ISO comment. The
  bound must hold through cached token lengths, double-byte tokens, factors
  and category names.
* `EnumComplete`, `FromNameSound`, `NameSetsComplete` and
  `ExtendedNameForm` are checked by documented configurations only:
  - enumeration reports every named code point of the range;
  - an accepted name is a name of the returned code point, or a well-formed
    extended name;
  - every character of every name is in `gNameSet`, and every character of
    every comment is in `gISOCommentSet`;
  - an extended name is the modern name, else the 1.0 name, else
    `<category-hex>`.

`MCCharNames` scales the data file. `UCHAR_MAX_VALUE` is 127, and there are
4 groups (MSBs 0, 1 and 3, which leaves a gap group at MSB 2), a type-0
range 72..81 and a type-1 range 100..111 with factors 2, 3 and 2.
`TokenCount` is 1100, so the model has double-byte tokens. The tokens are:
- `QU`, first met in the ISO comment of U+0005 and then in the name `QUAD`;
- `EN`, met twice in one line;
- `STAR` and `BAR` as double-byte tokens, in a 35-character name that sets
  the maximum.

Lines include an empty modern name (`;NULL`), a line with only a comment
(`;;ALT`), and a name with a 1.0 name (`DASH;HYPHEN`).
Code-point categories give control, letter and unassigned names.
Capacities are 0, 3 and 200: no room, room for part of every head, and room
for everything.

## Runs

| Run | Expect | Bounds | What it shows |
|---|---|---|---|
| `settings_pair` | pass | 2 collators (symmetric), root and `el`, 5 addresses, no failure, reorder inputs DEFAULT, one script and two codes, variableTop punctuation or symbols | ownership, consistency, cache freshness and reference counts through every setter, clone, assignment across tailorings and destruction |
| `assign_null` | violation of `SettingsNonNull` | 2 collators, root | `operator=` on one tailoring leaves `settings` NULL |
| `singletons_mixed` | pass | 3 threads, 1 call each, one simple and one tri-state singleton, one reset | successful simple callers share the one instance, it is never replaced, the tri-state instantiator runs once per generation, every call returns |
| `tristate_loser` | violation of `SuccessHasInstance` | 2 threads, 1 call each | a thread that waited while the creator failed returns NULL with success |
| `span_correct` | pass | 3 characters of 1, 2 and 3 UTF-8 bytes, 3 code-point sets, 5 string lists, texts up to 4 code points, every variant in both encodings | span, spanBack and spanNot match the references; the offset list stays in bounds |
| `span_not_back` | violation of `SpanNotBackCorrect` | as above | `spanNotBack` and `spanNotBackUTF8` return the length for a text with no set element |
| `collation_key` | pass | 3 keys, the empty key, `05 00`, `06 00`, `05 07 06 00`, 2 garbage bytes, no failure | equal keys hash alike, compareTo orders keys like their bytes, and the implementation refines `CollationKeyValue` |
| `tz_offsets` | pass | 2 zones (symmetric), 2 initial rules, 2 historic and 2 final rules, up to 2 historic rules per zone, allocations may fail, dates 0..16 | getOffset and the transition searches agree with the rules once one chain is built |
| `plural_rules` | pass | 2 objects (symmetric), 118 well-formed descriptions over six operands, `mod`, `is`/`in`/`within`, `not`, comma lists, `and`, `or` and `;`, 4 malformed ones, 3 locale outcomes, 9 numbers | accepted descriptions select what they say, malformed ones are rejected, and the locale fallback is the default rule |
| `plural_truncated` | violation of `AcceptedDescriptionsComplete` | 1 object, the descriptions above plus six cut after a word | `createRules("one: n is 1 or")` succeeds and selects `one` for every number |
| `char_names` | pass | `UCHAR_MAX_VALUE` 127, 4 groups with a gap, a hex and a factorized range, capacities 0, 3 and 200, every name and its case variants, range bounds at group and range edges, loads that may fail | the buffer contract of `u_charName` and `u_getISOComment`, name round trips in any case, sound enumeration, and maximum name lengths that bound every name |
| `collator_compare` | pass | all pairs of texts of up to 2 code points over 6 characters, every 3-code-point text over `c`, `h`, `é` and the acute accent against its one-position variants, 3 settings objects, part buffers of 1 and 4 bytes | every compare entry point agrees with the full comparison; sort keys order like compare; `nextSortKeyPart` reproduces the key |

Why the bounds are enough. Two collators can play every role a copy or an
assignment has: source, target, and the same or a different tailoring. The
reorder inputs are DEFAULT, off, one script, one special group, and a two-code list.
A two-code list is longer than the capacity a clone gives, so the reallocation
branch runs. A special group disturbs the fast-Latin groups and a script does not.
Five addresses cover two collators' two arrays each, plus the temporary in
`setReorderCodes`. Three are enough for a single collator. With fewer, the pool
runs dry and behaves like a failed malloc. The pair run leaves reorder-off out because it reaches the
`clone_reorder_off` defect. Its reorder inputs are DEFAULT, one script and a
two-code list, which still change the code-array length both ways and force the
reallocation; the special group alone and the third variableTop would only add
fast-Latin variants the violation runs already exercise, and push the run past
five minutes.

Three key slots let a copy or assignment meet a third key that still holds
the old bytes or hash. The values include the empty key and keys of different
lengths with a common prefix (`05 00`, `05 07 06 00`), so `ensureCapacity`
grows and reuses arrays and `compareTo` meets both a prefix and a
difference. They have even length, because an odd length reaches the
`hashCode()` over-read (`MCCollationKey_odd.cfg`) before anything else.

Three threads are enough for the init-once runs: one thread creates, one
waits, and one arrives after the outcome and retries after a failure. Each
thread calls once, on either singleton, so one behaviour can have all three
threads on one singleton or split them; the reset lets a later call on the
tri-state singleton start a new generation. The string lists of the span runs include strings
that overlap each other (`ab`, `bc`), strings that overlap the code-point span,
a string whose span saturates at `LONG_SPAN` (`abc` over `{a, b}`), and a list
(`ab`, `abc`, `ca`) where the longest match at each step fails and only the
exhaustive offset search finds the span (`abca`). Texts of four units let two
strings follow each other.

The comparison alphabet has these characters:
- `c`, `e` and `h`, with the contraction `ch`. `h` sorts before `c`, so
  cutting `ch` apart changes the order, and `h` is unsafe backward.
- `é` and `è`. They decompose to `e` plus a combining accent, are
  canonically equivalent to those sequences, and share the UTF-8 lead byte
  C3, so the identical prefix of two UTF-8 texts can end inside a character.
- the combining acute accent. It is unsafe backward and beyond fast-Latin.

With texts of two code points, both back-ups, the fast-Latin test on both
sides of its limits, a decomposition against its sequence, and keys of
up to 16 bytes all occur. The length-3 variants make the back-up run over
more than one unit. Part buffers of 1 byte end a part at every byte, which
includes inside a level and inside a code point of the identical level. A
4-byte buffer ends parts at level boundaries and resumes at the secondary and
identical levels.

The time zone rules are chosen so that every branch of `complete()` and of
the searches is taken:
- The return to standard time (`std`, at 1 and 4) has the initial rule's
  name and offsets, so `complete()` skips it while that rule is in effect.
- After the `alt` initial rule, the same rule changes only the name, which
  the searches must skip.
- Summer time starts twice (2 and 6).
- The two annual final rules first start at 5 and 7, between the historic
  starts. `complete()` therefore interleaves them with the historic rules
  before its final section.

No two rules start at the same time. At equal times the code's order among
rules decides, which the reference does not model. The two final rules have
different offsets, because with equal ones the searches recurse forever, as
in the code. Two zones are enough for copies and assignments. Two historic
rules per zone are enough for a rule to be added after a completion. The
dates 0..16 cover every historic start and two periods of the final rules.

The plural descriptions cover the operands `n`, `i`, `f`, `v` and `j`, each
with and without `mod 10`, in each relation form (`is`, `is not`, `in`,
`not in` with a two-item comma list, `within`, `not within`), plus `t is 5`;
and compounds of three relations with `and`, `or`, two chains, and two
chains with the same keyword. The numbers 0, 0.5, 1, 1.5, 2, 3, 11,
12 and 21 separate integers from fractions, `in` from `within`, and values
inside and outside each range before and after `mod 10`. The locale outcomes
are a missing resource, an empty rule, and a two-chain rule; two objects are
enough for a clone or an assignment.

For the character names, the range bounds (0, 1, 33, 72, 75, 100, 105,
112, 127, 128, 200) start and end enumerations in the middle of a group, at a
group edge, inside each algorithmic range and past `UCHAR_MAX_VALUE`. The
factorized range has 12 code points over factors 2, 3 and 2, so each
index resets at least once during an increment. The hex range crosses
`9`->`A` and `F`->`0` carries (72..81 is 48..51 in hex). The capacities
take every branch of `WRITE_CHAR`.

The collator, span, comparison, plural, character-name and time zone models assume no fairness and state no liveness
property. Those operations are synchronous calls with nothing pending between
them.

## Findings

The violation runs each reproduce a defect of this revision. Each one is
described in `PROJECT.json` under `findings`, with its line. More defects are
reproduced by configurations with no run of their own, and are listed under
`hazards`:
- `Singletons_simple_race.cfg`: after a failed `SimpleSingleton` creation,
  the creator's `return fInstance` can run while a retrying thread's
  instantiator stores into `fInstance`: a data race on a plain pointer
  (`NoInstanceRace`). `TriStateSingleton` cannot race that way, because its
  `u_initImplPostInit` always reports success.
- `CollatorSettings_clone_reorder_off.cfg`: cloning a collator whose
  reordering was turned off shares its zero-length reorder-code array, which
  both collators later free (`NoMemoryFault`).
- `CollatorSettings_reorder_null_table.cfg`: after reordering is turned off,
  turning it on again writes the new permutation through a NULL table
  pointer (`NoMemoryFault`).
- `PluralRules_bad_locale.cfg`: when the locale rule fails to parse after its
  first chain, `forLocale` parses the default rule into the same chain list,
  so the broken rule's later chains survive behind `other`
  (`FallbackIsDefault`).
- `PluralRules_ctor.cfg`: `select` on an object without rules returns the
  rule text `other: n`, which is not a keyword (`SelectIsKeyword`).
- `CollatorSettings_clone_oom.cfg`: a clone whose `cloneSettings` fails keeps
  the source's fast-Latin options over the default settings (`FastLatinCached`).
- `MCStringSpan_notset_oom.cfg`: when the clone in `addToSpanNotSet` fails,
  the spanNotSet stays the span set without the strings' first code points,
  and spanNot runs over a string (`SpanNotCorrect`).
- `MCStringSpan_oom.cfg`: when `OffsetList::setMaxLength` cannot allocate,
  span(WHILE_CONTAINED) indexes the uninitialised static list (`NoOffsetFault`).
- `CollatorSettings_reorder_off_table.cfg`: turning reordering off on a
  tailoring with a default reordering keeps the default permutation
  (`ReorderConsistent`).
- `MCCollationKey_oom.cfg`: when `ensureCapacity` fails inside `operator=`,
  `setToBogus` leaves `fBogus` false. The key then equals an empty key but
  keeps the other key's hash (`EqualKeysEqualHash`).
- `MCCollationKey_odd.cfg`: for an odd `fCount`, `hashCode()` reads the byte
  past the key, so equal keys can hash differently (`EqualKeysEqualHash`).

- `RuleBasedTimeZone_recomplete.cfg`: a `complete()` after adding a rule to
  a completed zone appends the new transitions to the old list
  (`TransitionsChained`).
- `CharNames_ext_overflow.cfg`: `u_charName(1, U_EXTENDED_CHAR_NAME, buf,
  10)` writes the digits of `<control-0001>` backwards from `buf[12]`, past the
  buffer (`BufferContract`).
- `CharNames_cap_cast.cfg`: a capacity of 65539 is cast to 3 for
  `getAlgName` and for the stored and extended names (`BufferContract`).
- `CharNames_enum_gap.cfg`: `u_enumCharNames(33, 128,
  U_EXTENDED_CHAR_NAME)` skips the extended names of the gap group 64..71
  that follows the partial start group (`EnumComplete`).
- `CharNames_lax_ext.cfg`: `u_charFromName(U_EXTENDED_CHAR_NAME)` reads
  before the name for `<control>`, and wraps `<control-100000001>` to 1. It
  also accepts a code point past `UCHAR_MAX_VALUE` and text after the first
  `>` (`FromNameSound`).
- `CharNames_token_sets.cfg`: the shared `tokenLengths` cache keeps the `Q`
  of the token `QU` out of `gNameSet`. The token is first met in an ISO
  comment, and `QUAD` then only adds its cached length. So
  `uprv_getCharNameCharacters` misses a letter of a name
  (`NameSetsComplete`).
- `CharNames_iso_ext.cfg`: `u_charName(3, U_EXTENDED_CHAR_NAME)` on the line
  `;;ALT` skips both empty fields and returns the ISO comment `ALT` instead
  of `<control-0003>` (`ExtendedNameForm`).

The `RuleBasedTimeZone` copy constructor keeps only the initial rule, so a
clone describes another zone. `compareRules` compares rule pointers, so a zone
never equals its copy. Both are visible in the code, and the model's `Clone`
action behaves this way. No state property can tell a clone from a newly constructed zone, so no run
checks them.

## Plan for the rest of the project

Done: `CollatorSettings`, `Singletons`, `StringSpan` in UTF-16 and UTF-8,
`CollatorCompare` (comparison, identical level, sort keys, sort-key parts), and
`CollationKey` with its refinement of `CollationKeyValue`, `RuleBasedTimeZone`,
`PluralRules` and `CharNames`.
Next, in order:

1. `CollatorCompare`: `getCollationKey` with the growing
   `CollationKeyByteSink`, whose failed reallocation makes the key bogus;
   the FCD-checking iterators; U+FFFE merge separators at the identical level.
2. `CollationKey(const UnicodeString&)`: it reads uninitialised members, so
   its behaviour is undefined from the first step, and it is not modelled.
3. `CharNames`: the data swapper `uchar_swapNames` with `makeTokenMap`. It
   permutes the bytes of a file image between charset families, and a model
   would need a byte image of the whole file. The nibble encoding of line
   lengths in `expandGroupLengths` could replace the stored byte lines.
