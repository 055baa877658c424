--------------------------- MODULE EventListener ---------------------------
(***************************************************************************)
(* The event listener package (src/package-devel/MiniKonoha.EventListener: *)
(* EventListener_glue.c and the script EventListener_glue.k): one listener *)
(* thread per kind of event fills a LocalQueue, and the thread that runs   *)
(* the program drains the queues at its safepoints, puts the events on the *)
(* script's EventQueue and has the Dispatcher call the handler.            *)
(*                                                                         *)
(* enqueueEvent and Dispatcher.invoke are script methods, and every field  *)
(* they read is read by a native getter, which ends in a safepoint         *)
(* (KReturn, CheckSafePoint): so KscheduleEvent runs again, inside them.   *)
(* The state has the stack of these calls.  A row of getters is one point   *)
(* of it, at which the safepoint is taken one or more times.               *)
(***************************************************************************)
EXTENDS Integers, Sequences, FiniteSets, SequencesExt

CONSTANTS
  QueueSize,        \* slots of a LocalQueue       (code: QUEUESIZE, 64)
  MaxRaises,        \* bound: exceptions that handlers raise
  MaxEvents,        \* bound: well-formed events in all
  MaxMalformed      \* bound: requests whose body is not JSON

ASSUME ListenerAssumption ==
  /\ QueueSize \in Nat /\ QueueSize >= 2
  /\ MaxRaises \in Nat /\ MaxEvents \in Nat /\ MaxMalformed \in Nat

HTTP_EVENT == 0
SIGNAL_EVENT == 1
EVENT_TYPE_MAX == 2
Source == 0 .. EVENT_TYPE_MAX - 1

NULL == 0                     \* what json_loads makes of a malformed body
Event == 1 .. MaxEvents

VARIABLES
  front, last, list, prod, reply, out,     \* per source: see LocalQueue
  started,     \* the sources whose listener has been started
  made,        \* events made so far, numbered in this order
  malformed,   \* malformed requests so far
  refused,     \* events answered with "Event queue is full"
  stack,       \* the calls under way in the program's thread, innermost last
  flag,        \* FLAG_EVENT of kmodevent->flag
  data,        \* EventQueue.data
  lock,        \* Dispatcher.lock is held
  handled,     \* the events handed to a callback, in order
  raises,      \* exceptions so far
  dropped,     \* history: events that enqueueEvent had in hand when one was raised
  stranded     \* history: calls of invoke that one cut off before the lock

ring     == <<front, last, list, prod, reply, out>>
listener == <<started, made, malformed, refused>>
raised   == <<raises, dropped, stranded>>
script   == <<flag, data, lock, handled, raised>>
vars     == <<ring, listener, stack, script>>

Idle == [at |-> "idle", ev |-> NULL]

Init ==
  /\ front = [s \in Source |-> 0]
  /\ last = [s \in Source |-> 0]
  /\ list = [s \in Source |-> [i \in 0 .. QueueSize - 1 |-> NULL]]
  /\ prod = [s \in Source |-> Idle]
  /\ reply = [s \in Source |-> <<>>]
  /\ out = [s \in Source |-> NULL]
  /\ started = {}
  /\ made = 0 /\ malformed = 0 /\ refused = {}
  /\ stack = <<>>
  /\ flag = FALSE /\ data = <<>> /\ lock = FALSE /\ handled = <<>>
  /\ raises = 0 /\ dropped = {} /\ stranded = 0

----------------------------------------------------------------------------
(* The calls under way.                                                    *)

Frame(fn, at, q, ev) == [fn |-> fn, at |-> at, q |-> q, ev |-> ev]

Running(fn, at) == stack # <<>> /\ Last(stack).fn = fn /\ Last(stack).at = at

GoTo(at) == stack' = [stack EXCEPT ![Len(stack)].at = at]
Return == stack' = Front(stack)

Schedule == Frame("schedule", "test", 0, NULL)

(* What a method goes on to once the getters that come first have been     *)
(* called, and with them KscheduleEvent.                                   *)
AfterGetters ==
  [begin |-> "add", enter |-> "lock", locked |-> "look",
   take |-> "remove", removed |-> "call", called |-> "unlock"]

Points == {"test", "read", "release", "dispatch", "add", "lock", "look", "remove", "call", "unlock"}
            \cup DOMAIN AfterGetters
MethodCall == [fn : {"schedule", "enqueueEvent", "invoke"}, at : Points,
               q : 0 .. EVENT_TYPE_MAX, ev : Event \cup {NULL}]

Number(seq, S) == Cardinality({k \in 1 .. Len(seq) : seq[k] \in S})
Calls(fn, points, evs) == {f \in MethodCall : f.fn = fn /\ f.at \in points /\ f.ev \in evs}

(* With an event that is not on the EventQueue yet, and with a request for *)
(* one that is, outside the lock.                                          *)
Adding == Calls("enqueueEvent", {"begin", "add"}, Event)
Outside == Calls("invoke", {"enter", "lock"}, {NULL})

InGetters == stack # <<>> /\ Last(stack).at \in DOMAIN AfterGetters

(* The dequeue under way, for queue s, as LocalQueue knows it.             *)
Dequeuing(s) ==
  IF stack # <<>> /\ Last(stack).fn = "schedule" /\ Last(stack).q = s
     /\ Last(stack).at \in {"read", "release"}
  THEN [at |-> Last(stack).at, ev |-> Last(stack).ev]
  ELSE Idle

HttpQueue ==
  INSTANCE LocalQueue
    WITH Event <- Event \cup {NULL}, front <- front[HTTP_EVENT], last <- last[HTTP_EVENT],
         list <- list[HTTP_EVENT], prod <- prod[HTTP_EVENT], cons <- Dequeuing(HTTP_EVENT),
         reply <- reply[HTTP_EVENT], out <- out[HTTP_EVENT]
SignalQueue ==
  INSTANCE LocalQueue
    WITH Event <- Event \cup {NULL}, front <- front[SIGNAL_EVENT], last <- last[SIGNAL_EVENT],
         list <- list[SIGNAL_EVENT], prod <- prod[SIGNAL_EVENT], cons <- Dequeuing(SIGNAL_EVENT),
         reply <- reply[SIGNAL_EVENT], out <- out[SIGNAL_EVENT]

NoWrap(i) == i + 1                        \* mutant of next
next(i) == HttpQueue!next(i)

----------------------------------------------------------------------------
(* The listener threads.                                                   *)

(* HttpEventListener.start, SignalEventListener.start; once each.          *)
Start(s) ==
  /\ stack = <<>>
  /\ s \notin started
  /\ started' = started \cup {s}
  /\ UNCHANGED <<ring, made, malformed, refused, stack, script>>

NeverFull(s) == FALSE                     \* mutant of Full
Full(s) == next(front[s]) = last[s]

(* enqueueRawEventToLocalQueue begins with a request or a signal.          *)
Receive(s, e) ==
  /\ s \in started
  /\ prod[s].at = "idle"
  /\ \/ /\ Full(s)
        /\ reply' = [reply EXCEPT ![s] = <<e, FALSE>>]
        /\ refused' = refused \cup ({e} \ {NULL})
        /\ UNCHANGED prod
     \/ /\ ~Full(s)
        /\ prod' = [prod EXCEPT ![s] = [at |-> "write", ev |-> e]]
        /\ UNCHANGED <<reply, refused>>
  /\ UNCHANGED <<front, last, list, out, started, stack, script>>

ReceiveEvent(s) ==
  /\ made < MaxEvents
  /\ made' = made + 1
  /\ Receive(s, made + 1)
  /\ UNCHANGED malformed

(* createRawEvent returns NULL, and NULL is enqueued.                      *)
ReceiveMalformed ==
  /\ malformed < MaxMalformed
  /\ malformed' = malformed + 1
  /\ Receive(HTTP_EVENT, NULL)
  /\ UNCHANGED made

Write(s) ==
  /\ prod[s].at = "write"
  /\ list' = [list EXCEPT ![s][front[s]] = prod[s].ev]
  /\ prod' = [prod EXCEPT ![s].at = "publish"]
  /\ UNCHANGED <<front, last, reply, out, listener, stack, script>>

Publish(s) ==
  /\ prod[s].at = "publish"
  /\ front' = [front EXCEPT ![s] = next(@)]
  /\ reply' = [reply EXCEPT ![s] = <<prod[s].ev, TRUE>>]
  /\ prod' = [prod EXCEPT ![s] = Idle]
  /\ UNCHANGED <<last, list, out, listener, stack, script>>

----------------------------------------------------------------------------
(* KscheduleEvent, in the program's thread.                                *)

(* A safepoint of the program itself, and one of the getters that the      *)
(* script's methods call.                                                  *)
ProgramSafePoint ==
  /\ stack = <<>>
  /\ stack' = <<Schedule>>
  /\ UNCHANGED <<ring, listener, script>>

GetterSafePoint(at) ==
  /\ stack' = Append(Front(stack) \o <<[Last(stack) EXCEPT !.at = at]>>, Schedule)
  /\ UNCHANGED <<ring, listener, script>>

(* One more getter of the row, and the last one.                           *)
NextGetter == InGetters /\ GetterSafePoint(Last(stack).at)
LastGetter == InGetters /\ GetterSafePoint(AfterGetters[Last(stack).at])

(* The queue is empty, or what it hands over is NULL: on to the next one.  *)
NextQueue(s) ==
  stack' = [stack EXCEPT ![Len(stack)] =
              Frame("schedule", IF s + 1 < EVENT_TYPE_MAX THEN "test" ELSE "dispatch", s + 1, NULL)]

Absorb ==
  /\ Running("schedule", "test")
  /\ LET s == Last(stack).q
     IN  \/ /\ s \notin started
            /\ NextQueue(s)
            /\ UNCHANGED out
         \/ /\ s \in started /\ front[s] = last[s]
            /\ out' = [out EXCEPT ![s] = NULL]
            /\ NextQueue(s)
         \/ /\ s \in started /\ front[s] # last[s]
            /\ GoTo("read")
            /\ UNCHANGED out
  /\ UNCHANGED <<front, last, list, prod, reply, listener, script>>

DequeueRead ==
  /\ Running("schedule", "read")
  /\ LET s == Last(stack).q
     IN  stack' = [stack EXCEPT ![Len(stack)] = Frame("schedule", "release", s, list[s][last[s]])]
  /\ UNCHANGED <<ring, listener, script>>

AddsAtOnce == "add"                       \* mutant of EnqueueStart
EnqueueStart == "begin"

(* The event leaves its queue, and enqFunc is called with it.              *)
DequeueRelease ==
  /\ Running("schedule", "release")
  /\ LET s == Last(stack).q
         e == Last(stack).ev
     IN  /\ last' = [last EXCEPT ![s] = next(@)]
         /\ out' = [out EXCEPT ![s] = e]
         /\ \/ /\ e = NULL
               /\ NextQueue(s)
            \/ /\ e # NULL
               /\ stack' = Front(stack) \o
                    <<Frame("schedule", "test", s, NULL), Frame("enqueueEvent", EnqueueStart, s, e)>>
  /\ UNCHANGED <<front, list, prod, reply, listener, script>>

(* The queues have been drained: invokeFunc is the last call it makes.     *)
Dispatch ==
  /\ Running("schedule", "dispatch")
  /\ \/ /\ flag
        /\ flag' = FALSE
        /\ stack' = [stack EXCEPT ![Len(stack)] = Frame("invoke", "enter", 0, NULL)]
     \/ /\ ~flag
        /\ Return
        /\ UNCHANGED flag
  /\ UNCHANGED <<ring, listener, data, lock, handled, raised>>

----------------------------------------------------------------------------
(* The script's methods.                                                   *)

(* enqueueEvent, after its getters: EventQueue.enqueue, System.setSafepoint. *)
EnqueueEvent ==
  /\ Running("enqueueEvent", "add")
  /\ data' = Append(data, Last(stack).ev)
  /\ flag' = TRUE
  /\ Return
  /\ UNCHANGED <<ring, listener, lock, handled, raised>>

(* Dispatcher.invoke.  The mutex is a default one: the thread that holds   *)
(* it and locks it again waits for ever.                                   *)
Recursive(held) == TRUE                   \* mutant of MayLock
MayLock(held) == ~held

Lock ==
  /\ Running("invoke", "lock")
  /\ MayLock(lock)
  /\ lock' = TRUE
  /\ GoTo("locked")
  /\ UNCHANGED <<ring, listener, flag, data, handled, raised>>

Look ==
  /\ Running("invoke", "look")
  /\ \/ /\ data = <<>>
        /\ GoTo("called")
     \/ /\ data # <<>>
        /\ stack' = [stack EXCEPT ![Len(stack)] = Frame("invoke", "take", 0, Head(data))]
  /\ UNCHANGED <<ring, listener, script>>

RemoveHead ==
  /\ Running("invoke", "remove")
  /\ data' = Tail(data)
  /\ GoTo("removed")
  /\ UNCHANGED <<ring, listener, flag, lock, handled, raised>>

Call ==
  /\ Running("invoke", "call")
  /\ handled' = Append(handled, Last(stack).ev)
  /\ GoTo("called")
  /\ UNCHANGED <<ring, listener, flag, data, lock, raised>>

(* The callback raises: longjmp to the statement of the program, past      *)
(* every call under way and past the unlock.  An event that enqueueEvent   *)
(* had not added is gone; a request that invoke had not come to the lock   *)
(* with is gone, and its event stays on the EventQueue.                    *)
Raise ==
  /\ raises < MaxRaises
  /\ raises' = raises + 1
  /\ Running("invoke", "call")
  /\ handled' = Append(handled, Last(stack).ev)
  /\ dropped' = dropped \cup {stack[k].ev : k \in {k \in 1 .. Len(stack) : stack[k] \in Adding}}
  /\ stranded' = stranded + Number(stack, Outside)
  /\ stack' = <<>>
  /\ UNCHANGED <<ring, listener, flag, data, lock>>

Unlock ==
  /\ Running("invoke", "unlock")
  /\ lock' = FALSE
  /\ Return
  /\ UNCHANGED <<ring, listener, flag, data, handled, raised>>

----------------------------------------------------------------------------
Listener == \E s \in Source : Start(s) \/ ReceiveEvent(s) \/ Write(s) \/ Publish(s)

Program ==
  \/ ProgramSafePoint \/ NextGetter \/ LastGetter
  \/ Absorb \/ DequeueRead \/ DequeueRelease \/ Dispatch
  \/ EnqueueEvent
  \/ Lock \/ Look \/ RemoveHead \/ Call \/ Raise \/ Unlock

Next == Listener \/ ReceiveMalformed \/ Program

(* The program goes on and calls native methods, each of them a safepoint; *)
(* a row of getters comes to its end.                                      *)
Fairness == WF_vars(Program) /\ SF_vars(LastGetter)

Spec == Init /\ [][Next]_vars /\ Fairness

----------------------------------------------------------------------------
(* Properties.                                                             *)

(* The variables hold what their C and script counterparts can hold.       *)
TypeOK ==
  /\ front \in [Source -> 0 .. QueueSize - 1]
  /\ last \in [Source -> 0 .. QueueSize - 1]
  /\ list \in [Source -> [0 .. QueueSize - 1 -> Event \cup {NULL}]]
  /\ prod \in [Source -> [at : {"idle", "write", "publish"}, ev : Event \cup {NULL}]]
  /\ reply \in [Source -> {<<>>} \cup ((Event \cup {NULL}) \X BOOLEAN)]
  /\ out \in [Source -> Event \cup {NULL}]
  /\ started \subseteq Source
  /\ made \in 0 .. MaxEvents /\ malformed \in 0 .. MaxMalformed
  /\ refused \subseteq Event
  /\ stack \in Seq(MethodCall)
  /\ flag \in BOOLEAN /\ lock \in BOOLEAN /\ raises \in 0 .. MaxRaises
  /\ data \in Seq(Event)
  /\ handled \in Seq(Event)
  /\ dropped \subseteq Event /\ stranded \in Nat

(* Where event e is: with its listener, refused, in a queue, in a call of  *)
(* enqueueEvent, on the EventQueue, with the dispatcher, or handled.       *)
Copies(e) ==
    Cardinality({s \in Source : prod[s].at # "idle" /\ prod[s].ev = e})
  + Cardinality({e} \cap refused)
  + Number(HttpQueue!Contents, {e}) + Number(SignalQueue!Contents, {e})
  + Number(stack, Calls("enqueueEvent", {"begin", "add"}, {e}))
  + Number(data, {e})
  + Number(stack, Calls("invoke", {"removed", "call"}, {e}))
  + Number(handled, {e})

(* Through the queues and all the nested calls no event is ever repeated,  *)
(* and none is lost but what enqueueEvent had in hand when a handler       *)
(* raised: what is in a queue of C or of the script survives the longjmp.  *)
NoEventTwice == \A e \in 1 .. made : Copies(e) <= 1
NoEventLost == \A e \in 1 .. made : Copies(e) >= 1 \/ e \in dropped

(* invoke takes one event only, and FLAG_EVENT has room for one request    *)
(* only; still no event is left behind on the EventQueue.  enqueueEvent    *)
(* reaches a safepoint before it adds, so that what it would otherwise     *)
(* merge its request with has been dispatched.  An exception leaves behind *)
(* as many as it cut off calls of invoke, and no more, whatever comes      *)
(* after it.                                                               *)
NothingLeftBehind == stack = <<>> /\ ~flag => Len(data) = stranded

(* The thread waits for the mutex it holds itself.                         *)
SelfLocked == Running("invoke", "lock") /\ lock

(* An event that was answered with OK gets to its handler, provided that   *)
(* the program does not lock itself out and no handler raises.             *)
Accepted(e) == e <= made /\ e \notin refused /\ \A s \in Source : prod[s].ev # e
EveryEventHandled ==
  \A e \in Event : Accepted(e) ~> (e \in ToSet(handled) \/ SelfLocked \/ raises > 0)

(* Between the listener thread and all the nested drains of the program's  *)
(* thread, a LocalQueue has one thread at each end.                        *)
QueueSpecs == HttpQueue!Spec /\ SignalQueue!Spec

(* The script takes Dispatcher.lock and gives it back "finally"            *)
(* (EventListener_glue.k:103).                                             *)
LockGivenBack == lock ~> ~lock

----------------------------------------------------------------------------
(* The inductive invariant behind the safety properties.                   *)

(* The calls of KscheduleEvent: draining queue q, or done with all; only   *)
(* the innermost call is ever in the middle of a dequeue.                  *)
Waiting(points) == {f \in Calls("schedule", points, {NULL}) : f.q \in Source}
Draining ==
  Waiting({"test", "read"}) \cup {f \in Calls("schedule", {"release"}, Event \cup {NULL}) : f.q \in Source}

(* The calls of Dispatcher.invoke inside its lock: with the event still on *)
(* the EventQueue, and after that.                                         *)
Before  == Calls("invoke", {"locked", "look"}, {NULL}) \cup Calls("invoke", {"take", "remove"}, Event)
After   == Calls("invoke", {"removed", "call"}, Event)
             \cup Calls("invoke", {"called", "unlock"}, Event \cup {NULL})

Suspended == Waiting({"test"}) \cup Adding \cup Outside \cup Before \cup After
StackInv ==
  /\ \A k \in 1 .. Len(stack) - 1 : stack[k] \in Suspended
  /\ \A k \in 1 .. Len(stack) : stack[k] \in Adding => k > 1 /\ stack[k - 1].fn = "schedule"
  /\ stack # <<>> =>
       Last(stack) \in Suspended \cup Draining \cup Calls("schedule", {"dispatch"}, {NULL})

(* One call at most is inside the lock, and it has taken the head of the   *)
(* EventQueue.                                                             *)
LockInv ==
  /\ Number(stack, Before \cup After) <= IF lock THEN 1 ELSE 0
  /\ \A k \in 1 .. Len(stack) :
       stack[k] \in Calls("invoke", {"take", "remove"}, Event) => data # <<>> /\ stack[k].ev = Head(data)

(* FLAG_EVENT is set only where a dispatch is still to come, and each      *)
(* event on the EventQueue has a request for it, the flag or a call of     *)
(* invoke that has not taken its event yet, unless an exception has cut    *)
(* that call off.                                                          *)
RequestInv ==
  /\ flag => stack # <<>> /\ (\/ Last(stack).fn = "schedule"
                              \/ Last(stack).fn = "enqueueEvent" /\ Last(stack).at = "begin")
  /\ Len(data) = (IF flag THEN 1 ELSE 0) + Number(stack, Outside \cup Before) + stranded

(* No event is anywhere before it is made, and it is then at one place.    *)
CopiesInv ==
  \A e \in Event :
    /\ e > made => Copies(e) = 0
    /\ e <= made => Copies(e) <= 1 /\ (Copies(e) >= 1 \/ e \in dropped)

RingInv == HttpQueue!IInv /\ SignalQueue!IInv
IInv == TypeOK /\ RingInv /\ StackInv /\ LockInv /\ RequestInv
=============================================================================
