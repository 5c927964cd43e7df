----------------------------- MODULE Singletons -----------------------------
(***************************************************************************)
(* SimpleSingleton::getInstance and TriStateSingleton::getInstance         *)
(* (src/10051/source/common/mutex.cpp), called by concurrent threads.       *)
(*                                                                         *)
(* Each singleton holds a UInitOnce (fInitOnce.fState: 0 not started, 1    *)
(* in progress, 2 done), fInstance and, for the tri-state kind, fErrorCode. *)
(* The init-once primitives are not in this tree; they are modelled from   *)
(* their contract:                                                         *)
(*   u_initImplPreInit:  under the init mutex, claim state 0 -> 1 and      *)
(*                       return TRUE; wait on the condition while 1;       *)
(*                       return FALSE once 2;                              *)
(*   u_initImplPostInit(ok): state := 2 if ok, else back to 0 (a later     *)
(*                       caller may try again); wake the waiters.          *)
(* A thread runs one step of getInstance at a time.  Reads and writes of   *)
(* fInstance are single steps, so a read racing with a write of another    *)
(* thread returns either value.                                            *)
(***************************************************************************)
EXTENDS Naturals, FiniteSets

CONSTANTS
    Threads,       \* calling threads
    Singletons,    \* singleton objects
    Kind,          \* Kind[s] \in {"simple", "tristate"}
    MaxCalls,      \* getInstance calls per thread
    MaxResets,     \* TriStateSingleton::reset() calls
    NULL

ASSUME Kind \in [Singletons -> {"simple", "tristate"}]

VARIABLES
    state,      \* state[s]: fInitOnce.fState
    instance,   \* instance[s]: fInstance, NULL or an instance number
    errCode,    \* errCode[s]: fErrorCode (tri-state only)
    created,    \* number of objects the instantiators returned so far
    attempts,   \* attempts[s]: instantiator calls since the last reset
    gen,        \* gen[s]: number of resets of s
    pc,         \* pc[t]: where thread t is in getInstance
    target,     \* target[t]: the singleton of t's current call
    err,        \* err[t]: t's UErrorCode, "ok" or "fail"
    result,     \* result[t]: the value t's last call returned
    callGen,    \* callGen[t]: gen of the singleton when t's last call returned
    calls       \* calls[t]: calls t has started

vars == <<state, instance, errCode, created, attempts, gen, pc, target, err, result,
          callGen, calls>>

Init ==
    /\ state = [s \in Singletons |-> 0]
    /\ instance = [s \in Singletons |-> NULL]
    /\ errCode = [s \in Singletons |-> "ok"]
    /\ created = 0
    /\ attempts = [s \in Singletons |-> 0]
    /\ gen = [s \in Singletons |-> 0]
    /\ pc = [t \in Threads |-> "idle"]
    /\ target = [t \in Threads |-> CHOOSE s \in Singletons : TRUE]
    /\ err = [t \in Threads |-> "ok"]
    /\ result = [t \in Threads |-> NULL]
    /\ callGen = [t \in Threads |-> 0]
    /\ calls = [t \in Threads |-> 0]

Goto(t, l) == pc' = [pc EXCEPT ![t] = l]

\* Return v from getInstance.
Return(t, v) ==
    /\ result' = [result EXCEPT ![t] = v]
    /\ callGen' = [callGen EXCEPT ![t] = gen[target[t]]]
    /\ Goto(t, "idle")

-----------------------------------------------------------------------------
(* A call starts with the caller's error code, which may already be a      *)
(* failure: then getInstance returns NULL at once.                         *)

Call(t, s, e) ==
    /\ pc[t] = "idle" /\ calls[t] < MaxCalls
    /\ calls' = [calls EXCEPT ![t] = @ + 1]
    /\ target' = [target EXCEPT ![t] = s]
    /\ err' = [err EXCEPT ![t] = e]
    /\ IF e = "fail"
       THEN /\ result' = [result EXCEPT ![t] = NULL]
            /\ callGen' = [callGen EXCEPT ![t] = gen[s]]
            /\ UNCHANGED pc
       ELSE /\ Goto(t, "fast")
            /\ UNCHANGED <<result, callGen>>
    /\ UNCHANGED <<state, instance, errCode, created, attempts, gen>>

\* The acquire load of fState; 2 returns the instance (and, tri-state, the
\* stored error code) at once.
FastPath(t) ==
    LET s == target[t] IN
    /\ pc[t] = "fast"
    /\ IF state[s] = 2
       THEN /\ Return(t, instance[s])
            /\ err' = IF Kind[s] = "tristate" THEN [err EXCEPT ![t] = errCode[s]] ELSE err
       ELSE /\ Goto(t, "pre")
            /\ UNCHANGED <<result, callGen, err>>
    /\ UNCHANGED <<state, instance, errCode, created, attempts, gen, target, calls>>

\* Mutant: the claim is an atomic increment rather than a compare-and-set.
PreInitFetchAdd(t) ==
    LET s == target[t] IN
    /\ pc[t] = "pre"
    /\ state' = [state EXCEPT ![s] = @ + 1]
    /\ Goto(t, IF state[s] = 0 THEN "create" ELSE "ret")
    /\ UNCHANGED <<instance, errCode, created, attempts, gen, target, err, result, callGen, calls>>

\* u_initImplPreInit: claim the initialization, or wait for it to finish.
PreInit(t) ==
    LET s == target[t] IN
    /\ pc[t] = "pre"
    /\ state[s] # 1
    /\ IF state[s] = 0
       THEN /\ state' = [state EXCEPT ![s] = 1]
            /\ Goto(t, "create")
       ELSE /\ Goto(t, "ret")
            /\ UNCHANGED state
    /\ UNCHANGED <<instance, errCode, created, attempts, gen, target, err, result, callGen, calls>>

\* Mutant: a failed instantiator returns before u_initImplPostInit.
InstantiateEarlyReturn(t, ok) ==
    LET s == target[t]
        obj == IF ok THEN created + 1 ELSE NULL
    IN
    /\ pc[t] = "create"
    /\ instance' = [instance EXCEPT ![s] = obj]
    /\ created' = IF ok THEN created + 1 ELSE created
    /\ attempts' = [attempts EXCEPT ![s] = @ + 1]
    /\ err' = [err EXCEPT ![t] = IF ok THEN "ok" ELSE "fail"]
    /\ errCode' = IF Kind[s] = "tristate" THEN [errCode EXCEPT ![s] = err'[t]] ELSE errCode
    /\ Goto(t, IF ok THEN "post" ELSE "ret")
    /\ UNCHANGED <<state, gen, target, result, callGen, calls>>

\* instantiator(context, errorCode) and the stores that follow it: the
\* instantiator returns a new object, or NULL with a failure code.
\* The tri-state kind clears errorCode first and stores it in fErrorCode.
Instantiate(t, ok) ==
    LET s == target[t]
        obj == IF ok THEN created + 1 ELSE NULL
    IN
    /\ pc[t] = "create"
    /\ instance' = [instance EXCEPT ![s] = obj]
    /\ created' = IF ok THEN created + 1 ELSE created
    /\ attempts' = [attempts EXCEPT ![s] = @ + 1]
    /\ err' = [err EXCEPT ![t] = IF ok THEN "ok" ELSE "fail"]
    /\ errCode' = IF Kind[s] = "tristate" THEN [errCode EXCEPT ![s] = err'[t]] ELSE errCode
    /\ Goto(t, "post")
    /\ UNCHANGED <<state, gen, target, result, callGen, calls>>

\* Mutant: SimpleSingleton reports TRUE like the tri-state kind.
PostInitAlwaysDone(t) ==
    LET s == target[t] IN
    /\ pc[t] = "post"
    /\ state' = [state EXCEPT ![s] = 2]
    /\ Goto(t, "ret")
    /\ UNCHANGED <<instance, errCode, created, attempts, gen, target, err, result, callGen, calls>>

\* Mutant: the success argument is inverted.
PostInitInverted(t) ==
    LET s == target[t]
        ok == Kind[s] = "tristate" \/ instance[s] # NULL
    IN
    /\ pc[t] = "post"
    /\ state' = [state EXCEPT ![s] = IF ok THEN 0 ELSE 2]
    /\ Goto(t, "ret")
    /\ UNCHANGED <<instance, errCode, created, attempts, gen, target, err, result, callGen, calls>>

\* u_initImplPostInit: SimpleSingleton reports whether fInstance != NULL,
\* TriStateSingleton always reports TRUE.
PostInit(t) ==
    LET s == target[t]
        ok == Kind[s] = "tristate" \/ instance[s] # NULL
    IN
    /\ pc[t] = "post"
    /\ state' = [state EXCEPT ![s] = IF ok THEN 2 ELSE 0]
    /\ Goto(t, "ret")
    /\ UNCHANGED <<instance, errCode, created, attempts, gen, target, err, result, callGen, calls>>

\* return fInstance;
ReturnInstance(t) ==
    /\ pc[t] = "ret"
    /\ Return(t, instance[target[t]])
    /\ UNCHANGED <<state, instance, errCode, created, attempts, gen, target, err, calls>>

\* TriStateSingleton::reset(), called at cleanup while no thread uses it.
Reset(s) ==
    /\ Kind[s] = "tristate"
    /\ gen[s] < MaxResets
    /\ \A t \in Threads : pc[t] = "idle" \/ target[t] # s
    /\ instance' = [instance EXCEPT ![s] = NULL]
    /\ errCode' = [errCode EXCEPT ![s] = "ok"]
    /\ state' = [state EXCEPT ![s] = 0]
    /\ attempts' = [attempts EXCEPT ![s] = 0]
    /\ gen' = [gen EXCEPT ![s] = @ + 1]
    /\ UNCHANGED <<created, pc, target, err, result, callGen, calls>>

Step(t) ==
    \/ FastPath(t)
    \/ PreInit(t)
    \/ \E ok \in BOOLEAN : Instantiate(t, ok)
    \/ PostInit(t)
    \/ ReturnInstance(t)

Next ==
    \/ \E t \in Threads, s \in Singletons, e \in {"ok", "fail"} : Call(t, s, e)
    \/ \E t \in Threads : Step(t)
    \/ \E s \in Singletons : Reset(s)

\* Threads are scheduled fairly, and a waiter in u_initImplPreInit is woken
\* by the broadcast of u_initImplPostInit.
Fairness == \A t \in Threads : WF_vars(Step(t))

Spec == Init /\ [][Next]_vars /\ Fairness

-----------------------------------------------------------------------------
(* Properties.  A thread's last call is complete when it is idle again.    *)

Returned(t) == pc[t] = "idle" /\ calls[t] > 0

TypeOK ==
    /\ state \in [Singletons -> {0, 1, 2}]
    /\ instance \in [Singletons -> Nat \cup {NULL}]
    /\ errCode \in [Singletons -> {"ok", "fail"}]
    /\ pc \in [Threads -> {"idle", "fast", "pre", "create", "post", "ret"}]
    /\ target \in [Threads -> Singletons]
    /\ err \in [Threads -> {"ok", "fail"}]
    /\ result \in [Threads -> Nat \cup {NULL}]
    /\ calls \in [Threads -> 0..MaxCalls]

\* A getInstance call that leaves the caller's error code a success returns
\* an instance: NULL comes only with a failure code (the three states of
\* the comment in mutex.cpp: a failed creation has U_FAILURE(fErrorCode)).
SuccessHasInstance ==
    \A t \in Threads : Returned(t) /\ err[t] = "ok" => result[t] # NULL

\* The same, for the calls of SimpleSingleton::getInstance only.
SimpleSuccessHasInstance ==
    \A t \in Threads :
        Returned(t) /\ Kind[target[t]] = "simple" /\ err[t] = "ok" => result[t] # NULL

\* All callers that succeed between two resets get the same instance.
SameInstance ==
    \A t1, t2 \in Threads :
        /\ Returned(t1) /\ Returned(t2)
        /\ target[t1] = target[t2] /\ callGen[t1] = callGen[t2]
        /\ err[t1] = "ok" /\ err[t2] = "ok"
        => result[t1] = result[t2]

\* "The instantiator function will be called only once, whether it
\* succeeds or fails" (TriStateSingleton, until reset()).
InstantiateOnce ==
    \A s \in Singletons : Kind[s] = "tristate" => attempts[s] <= 1

\* Once a SimpleSingleton has published an instance it never replaces it.
InstanceStable ==
    [][\A s \in Singletons :
         Kind[s] = "simple" /\ instance[s] # NULL => instance'[s] = instance[s]]_vars

\* fInstance is a plain pointer: getInstance's final "return fInstance" must
\* not run while another thread's instantiator stores into fInstance of the
\* same singleton, or the read is a data race.  After a failed
\* SimpleSingleton creation, u_initImplPostInit has put fState back to 0,
\* so a retrying thread can claim the creation before the read.
NoInstanceRace ==
    \A t1, t2 \in Threads :
        t1 # t2 /\ pc[t1] = "ret" /\ pc[t2] = "create" => target[t1] # target[t2]

\* Every getInstance call returns: nobody waits forever in PreInit.
CallsReturn == \A t \in Threads : pc[t] # "idle" ~> pc[t] = "idle"
=============================================================================
