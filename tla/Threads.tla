------------------------------ MODULE Threads ------------------------------
(***************************************************************************)
(* The POSIX threads that the objects of mgw-core start, as far as the     *)
(* code uses them: creation, detachment, join and exit, and for every      *)
(* thread the stack of the calls it is in.                                 *)
(*                                                                         *)
(* A thread is a number.  The number of a thread that is gone is given to  *)
(* a new thread only when no pthread_t of the object holds it any more and *)
(* no thread joins it.                                                     *)
(***************************************************************************)
EXTENDS Naturals, Sequences, FiniteSets

CONSTANTS
    MaxThreads,     \* bound: how many threads, beside Api, there may be at a time
    CreateMayFail   \* whether pthread_create may report an error

ASSUME ThreadsAssumption == MaxThreads \in Nat /\ CreateMayFail \in BOOLEAN

Api  == 0                       \* the thread that calls the interface of mgw.h
Tids == 0 .. MaxThreads

VARIABLES
    stack,  \* stack[t]: the frames of thread t, the innermost call first
    life,   \* life[t]: "none", "joinable", "detached" or "zombie"
    role    \* role[t]: the function the thread was created to run

threadVars == <<stack, life, role>>

(***************************************************************************)
(* A frame is the point a call has reached, a value (the stop code it was  *)
(* passed, or what a call it made has returned) and the thread it joins,   *)
(* with Api for none: nothing ever joins that one.                         *)
(***************************************************************************)
Frame(at, val) == [at |-> at, val |-> val, join |-> Api]

At(t, at) == stack[t] # <<>> /\ Head(stack[t]).at = at

Jump(s, t, at) == [s EXCEPT ![t] = <<[Head(@) EXCEPT !.at = at]>> \o Tail(@)]

Call(s, t, next, at, val) ==
    [s EXCEPT ![t] = <<Frame(at, val), [Head(@) EXCEPT !.at = next]>> \o Tail(@)]

Return(s, t) == [s EXCEPT ![t] = Tail(@)]

ReturnVal(s, t, val) ==
    [s EXCEPT ![t] = <<[Head(Tail(@)) EXCEPT !.val = val]>> \o Tail(Tail(@))]

Val(t) == Head(stack[t]).val

(***************************************************************************)
(* Threads that run code of the object now.                                *)
(***************************************************************************)
Running == {t \in Tids : life[t] \in {"joinable", "detached"}}

InRole(r) == {t \in Running : role[t] = r}

Unused(held) ==
    {t \in Tids \ held : /\ life[t] = "none"
                         /\ \A u \in Tids : stack[u] # <<>> => Head(stack[u]).join # t}

Fresh(held) == CHOOSE t \in Unused(held) : \A u \in Unused(held) : t <= u

ThreadsInit(at) ==
    /\ stack = [t \in Tids |-> IF t = Api THEN <<Frame(at, "none")>> ELSE <<>>]
    /\ life = [t \in Tids |-> IF t = Api THEN "joinable" ELSE "none"]
    /\ role = [t \in Tids |-> IF t = Api THEN "api" ELSE "none"]

(***************************************************************************)
(* pthread_create in the state whose stacks are s, with held the numbers   *)
(* the object holds: the new thread is Fresh(held) and stands at the first *)
(* point of its function.  The caller writes that number to its pthread_t. *)
(***************************************************************************)
Spawn(s, held, function, state) ==
    /\ Unused(held) # {}
    /\ stack' = [s EXCEPT ![Fresh(held)] = <<Frame(function, "none")>>]
    /\ life' = [life EXCEPT ![Fresh(held)] = state]
    /\ role' = [role EXCEPT ![Fresh(held)] = function]

SpawnFails(s) ==
    /\ CreateMayFail
    /\ stack' = s
    /\ UNCHANGED <<life, role>>

(***************************************************************************)
(* A thread of which nothing is left, in the state whose stacks are s.     *)
(***************************************************************************)
Bury(s, h) ==
    /\ stack' = s
    /\ life' = [life EXCEPT ![h] = "none"]
    /\ role' = [role EXCEPT ![h] = "none"]

Move(s) == stack' = s /\ UNCHANGED <<life, role>>

(***************************************************************************)
(* pthread_detach(h): a thread that has exited already is released, one    *)
(* that is gone or detached is left alone.                                 *)
(***************************************************************************)
Detach(s, h) ==
    CASE life[h] = "joinable" -> /\ stack' = s
                                 /\ life' = [life EXCEPT ![h] = "detached"]
                                 /\ UNCHANGED role
      [] life[h] = "zombie"   -> Bury(s, h)
      [] OTHER                -> Move(s)

(***************************************************************************)
(* pthread_join(h) by t, reached at point `at' of the code.  The call is   *)
(* refused for t itself (EDEADLK) and for a detached thread (EINVAL), and  *)
(* the code looks at neither answer.  A thread that is gone must not be    *)
(* joined; what glibc does then is return at once.                         *)
(***************************************************************************)
JumpJoin(s, t, at, h) ==
    LET waits == life[h] = "zombie" \/ (life[h] = "joinable" /\ h # t)
    IN  [s EXCEPT ![t] = <<[at |-> at, val |-> "none", join |-> IF waits THEN h ELSE Api]>>
                             \o Tail(@)]

Joined(t) == Head(stack[t]).join

Join(s, t) ==
    \/ Joined(t) = Api /\ Move(s)
    \/ Joined(t) # Api /\ life[Joined(t)] = "none" /\ Move(s)
    \/ life[Joined(t)] = "zombie" /\ Bury(s, Joined(t))

(***************************************************************************)
(* The thread's function returns.                                          *)
(***************************************************************************)
Exit(t) ==
    LET s == [stack EXCEPT ![t] = <<>>]
    IN  IF life[t] = "detached" THEN Bury(s, t)
        ELSE stack' = s /\ life' = [life EXCEPT ![t] = "zombie"] /\ UNCHANGED role

(***************************************************************************)
(* os_event_signal wakes one thread that waits at point `from': it goes on *)
(* at `to' whatever becomes of the event, because os_event_wait does not   *)
(* look at it again.                                                       *)
(***************************************************************************)
Waking(s, from, to) ==
    LET waiting == {t \in Tids : s[t] # <<>> /\ Head(s[t]).at = from}
    IN  IF waiting = {} THEN {s} ELSE {Jump(s, t, to) : t \in waiting}
============================================================================
