----------------------------- MODULE Transport -----------------------------
(***************************************************************************)
(* The HTTP transport under every tool: retryingRead with its Limiter and  *)
(* RateWindow, and gqlQuery's retries of transient GraphQL errors.         *)
(*                                                                         *)
(* A call is where its `await` left it (`pc`).  It holds a slot of its     *)
(* limiter from the grant until the `finally` of the attempt, which comes  *)
(* after the backoff when the connection failed and before it when the     *)
(* server answered 429 or 5xx.  Time is kept as the age of each start in   *)
(* the rate window, in ticks, so that the clock itself needs no bound.     *)
(***************************************************************************)
EXTENDS Integers, Sequences, FiniteSets, FiniteSetsExt

CONSTANTS
  Call,              \* requests made through one endpoint
  Limiter,           \* the limiters there are for that endpoint
  LimiterOf,         \* the limiter a request queues in
  Concurrency,       \* options.concurrency
  RateLimit,         \* requests per window, 0 for no window
  WindowMs,          \* RATE_WINDOW_MS, in ticks
  Attempts,          \* options.attempts
  TransientRetries,  \* TRANSIENT_RETRIES of gqlQuery
  Json               \* the requests made by retryingJson: the body is read in the
                     \* loop, nothing can abort them and they have no rate window

ASSUME TransportAssumption ==
  /\ LimiterOf \in [Call -> Limiter]
  /\ Concurrency \in Nat \ {0}
  /\ RateLimit \in Nat
  /\ WindowMs \in Nat \ {0}
  /\ Attempts \in Nat \ {0}
  /\ TransientRetries \in Nat
  /\ Json \subseteq Call

VARIABLES
  active,    \* Limiter.active
  waiting,   \* Limiter.waiting
  turns,     \* RateWindow.tail: who waits for a start, in order
  starts,    \* RateWindow.starts, as ages, oldest first
  pc,        \* where each request is
  attempt,   \* attempt of retryingRead
  retry,     \* attempt of gqlQuery
  aborted,   \* requests whose caller aborted
  sent       \* history: the ages of the fetches started within the window

slots == <<active, waiting>>
window == <<turns, starts>>
counters == <<attempt, retry>>
vars == <<slots, window, pc, counters, aborted, sent>>

Place ==
  {"idle", "ready", "queued", "granted", "metered", "sent", "holding", "backoff",
   "reading", "pause", "done"}

\* Where a request holds a slot.
Holding == {"granted", "metered", "sent", "holding"}

Holders(l) == { c \in Call : LimiterOf[c] = l /\ pc[c] \in Holding }

Init ==
  /\ active = [l \in Limiter |-> 0]
  /\ waiting = [l \in Limiter |-> <<>>]
  /\ turns = <<>>
  /\ starts = <<>>
  /\ pc = [c \in Call |-> "idle"]
  /\ attempt = [c \in Call |-> 1]
  /\ retry = [c \in Call |-> 0]
  /\ aborted = {}
  /\ sent = <<>>

-----------------------------------------------------------------------------
(* Limiter. *)

\* release() that frees the slot and leaves the waiter asleep.
LeaveUnheard(c, place) ==
  /\ active' = [active EXCEPT ![LimiterOf[c]] = @ - 1]
  /\ pc' = [pc EXCEPT ![c] = place]
  /\ UNCHANGED waiting

\* release() that wakes the next waiter and counts the slot as free as well.
LeaveTwice(c, place) ==
  LET l == LimiterOf[c] IN
  /\ active' = [active EXCEPT ![l] = @ - 1]
  /\ IF waiting[l] = <<>>
     THEN /\ pc' = [pc EXCEPT ![c] = place]
          /\ UNCHANGED waiting
     ELSE /\ waiting' = [waiting EXCEPT ![l] = Tail(@)]
          /\ pc' = [pc EXCEPT ![c] = place, ![Head(waiting[l])] = "granted"]

\* release(): the slot goes straight to the next waiter, or is freed; the
\* request that held it goes on at `place`.
Leave(c, place) ==
  LET l == LimiterOf[c] IN
  IF waiting[l] = <<>>
  THEN /\ active' = [active EXCEPT ![l] = @ - 1]
       /\ pc' = [pc EXCEPT ![c] = place]
       /\ UNCHANGED waiting
  ELSE /\ waiting' = [waiting EXCEPT ![l] = Tail(@)]
       /\ pc' = [pc EXCEPT ![c] = place, ![Head(waiting[l])] = "granted"]
       /\ UNCHANGED active

\* acquire()
Acquire(c) ==
  LET l == LimiterOf[c] IN
  IF active[l] < Concurrency
  THEN /\ active' = [active EXCEPT ![l] = @ + 1]
       /\ pc' = [pc EXCEPT ![c] = "granted"]
       /\ UNCHANGED waiting
  ELSE /\ waiting' = [waiting EXCEPT ![l] = Append(@, c)]
       /\ pc' = [pc EXCEPT ![c] = "queued"]
       /\ UNCHANGED active

-----------------------------------------------------------------------------
(* RateWindow. *)

\* The starts are shifted off the front while they are `age` or older.
Younger(s, age) ==
  LET first == Min({ i \in 1 .. Len(s) + 1 : i > Len(s) \/ s[i] < age })
  IN  SubSeq(s, first, Len(s))

\* The starts that are dropped a tick too early.
RecentShort(s) == Younger(s, WindowMs - 1)

\* The starts that are still inside the window.
Recent(s) == Younger(s, WindowMs)

Aged(s) == [i \in DOMAIN s |-> IF s[i] < WindowMs THEN s[i] + 1 ELSE s[i]]

Tick ==
  /\ \E i \in DOMAIN starts : starts[i] < WindowMs
  /\ starts' = Aged(starts)
  /\ sent' = Younger(Aged(sent), WindowMs)
  /\ UNCHANGED <<slots, turns, pc, counters, aborted>>

-----------------------------------------------------------------------------
(* retryingRead. *)

\* `last`, counting one attempt too many.
LastLate(c) == attempt[c] > Attempts

Last(c) == attempt[c] >= Attempts

Begin(c) ==
  /\ pc[c] = "idle"
  /\ pc' = [pc EXCEPT ![c] = "ready"]
  /\ UNCHANGED <<slots, window, counters, aborted, sent>>

\* The head of the loop, up to `await limiter.acquire()`.
Ask(c) ==
  /\ pc[c] = "ready" /\ c \notin aborted
  /\ Acquire(c)
  /\ UNCHANGED <<window, counters, aborted, sent>>

Fetch(c) ==
  /\ pc' = [pc EXCEPT ![c] = "sent"]
  /\ sent' = Append(sent, 0)
  /\ UNCHANGED slots

\* The slot came: send, or line up for the window.
Enter(c) ==
  /\ pc[c] = "granted" /\ c \notin aborted
  /\ IF RateLimit = 0 \/ c \in Json
     THEN Fetch(c) /\ UNCHANGED turns
     ELSE /\ turns' = Append(turns, c)
          /\ pc' = [pc EXCEPT ![c] = "metered"]
          /\ UNCHANGED <<slots, sent>>
  /\ UNCHANGED <<starts, counters, aborted>>

\* take() without the check of the signal that follows it.
TakeUnchecked(c) ==
  /\ pc[c] = "metered" /\ c = Head(turns)
  /\ Len(Recent(starts)) < RateLimit
  /\ starts' = Append(Recent(starts), 0)
  /\ turns' = Tail(turns)
  /\ Fetch(c)
  /\ UNCHANGED <<counters, aborted>>

\* take(): the first in line starts once the window has room.  A caller that
\* aborted while it waited has used up a start, and sends nothing.
Take(c) ==
  /\ pc[c] = "metered" /\ c = Head(turns)
  /\ Len(Recent(starts)) < RateLimit
  /\ starts' = Append(Recent(starts), 0)
  /\ turns' = Tail(turns)
  /\ IF c \in aborted THEN Leave(c, "done") /\ UNCHANGED sent ELSE Fetch(c)
  /\ UNCHANGED <<counters, aborted>>

\* A response that is handed to `read`: no 429 and no 5xx, or the last one.
Answer(c) ==
  /\ pc[c] = "sent"
  /\ Leave(c, "reading")
  /\ UNCHANGED <<window, counters, aborted, sent>>

\* 429 or 5xx: the slot is given up while waiting.
Busy(c) ==
  /\ pc[c] = "sent" /\ ~Last(c)
  /\ Leave(c, "backoff")
  /\ UNCHANGED <<window, counters, aborted, sent>>

\* A connection failure worth another try: the wait is inside the try block.
Reset(c) ==
  /\ pc[c] = "sent" /\ ~Last(c)
  /\ pc' = [pc EXCEPT ![c] = "holding"]
  /\ UNCHANGED <<slots, window, counters, aborted, sent>>

\* A timeout, a connection failure on the last attempt, any other error.
Fail(c) ==
  /\ pc[c] = "sent"
  /\ Leave(c, "done")
  /\ UNCHANGED <<window, counters, aborted, sent>>

\* The backoff is over.
Retry(c) ==
  /\ \/ pc[c] = "backoff" /\ pc' = [pc EXCEPT ![c] = "ready"] /\ UNCHANGED slots
     \/ pc[c] = "holding" /\ Leave(c, "ready")
  /\ attempt' = [attempt EXCEPT ![c] = @ + 1]
  /\ UNCHANGED <<window, retry, aborted, sent>>

\* retryingJson: a body that could not be read or parsed is another try.
BadBody(c) ==
  /\ c \in Json /\ pc[c] = "reading" /\ ~Last(c)
  /\ pc' = [pc EXCEPT ![c] = "backoff"]
  /\ UNCHANGED <<slots, window, counters, aborted, sent>>

\* The answer, good or bad, goes to the caller.
Finish(c) ==
  /\ pc[c] = "reading"
  /\ pc' = [pc EXCEPT ![c] = "done"]
  /\ UNCHANGED <<slots, window, counters, aborted, sent>>

-----------------------------------------------------------------------------
(* gqlQuery. *)

\* A GraphQL error the service is known to recover from.
Transient(c) ==
  /\ c \notin Json /\ pc[c] = "reading" /\ c \notin aborted
  /\ retry[c] < TransientRetries
  /\ pc' = [pc EXCEPT ![c] = "pause"]
  /\ UNCHANGED <<slots, window, counters, aborted, sent>>

Requery(c) ==
  /\ pc[c] = "pause"
  /\ pc' = [pc EXCEPT ![c] = "ready"]
  /\ attempt' = [attempt EXCEPT ![c] = 1]
  /\ retry' = [retry EXCEPT ![c] = @ + 1]
  /\ UNCHANGED <<slots, window, aborted, sent>>

\* The caller's signal fires.
Abort(c) ==
  /\ c \notin Json /\ pc[c] \notin {"idle", "done"}
  /\ aborted' = aborted \cup {c}
  /\ UNCHANGED <<slots, window, pc, counters, sent>>

\* What sees the signal: a fetch, a timer, and the checks between two awaits.
\* A request that waits for a slot or for its turn sees it when that comes.
Cancel(c) ==
  /\ c \in aborted
  /\ \/ /\ pc[c] \in {"ready", "backoff", "reading", "pause"}
        /\ pc' = [pc EXCEPT ![c] = "done"]
        /\ UNCHANGED slots
     \/ /\ pc[c] \in {"granted", "sent", "holding"}
        /\ Leave(c, "done")
  /\ UNCHANGED <<window, counters, aborted, sent>>

\* Every request was answered and the window is empty.
AllDone ==
  /\ \A c \in Call : pc[c] = "done"
  /\ \A i \in DOMAIN starts : starts[i] >= WindowMs
  /\ UNCHANGED vars

Step(c) ==
  \/ Ask(c) \/ Enter(c) \/ Take(c)
  \/ Answer(c) \/ Busy(c) \/ Reset(c) \/ Fail(c) \/ Retry(c) \/ BadBody(c) \/ Finish(c)
  \/ Transient(c) \/ Requery(c) \/ Cancel(c)

Next ==
  \/ \E c \in Call : Begin(c) \/ Step(c) \/ Abort(c)
  \/ Tick
  \/ AllDone

Spec == Init /\ [][Next]_vars

\* Timers fire, every fetch settles (AbortSignal.timeout), promises resume.
Fairness == WF_vars(Tick) /\ \A c \in Call : WF_vars(Step(c))

FairSpec == Spec /\ Fairness

-----------------------------------------------------------------------------
(* Properties. *)

TypeOK ==
  /\ active \in [Limiter -> Nat]
  /\ waiting \in [Limiter -> Seq(Call)]
  /\ turns \in Seq(Call)
  /\ starts \in Seq(0..WindowMs)
  /\ pc \in [Call -> Place]
  /\ attempt \in [Call -> 1..Attempts]
  /\ retry \in [Call -> 0..TransientRetries]
  /\ aborted \subseteq Call
  /\ sent \in Seq(0..(WindowMs - 1))

\* A limiter's count is the number of requests that hold its slots, whichever
\* of the many ways out of an attempt they take, and never above the limit.
SlotsExact ==
  \A l \in Limiter :
    /\ active[l] = Cardinality(Holders(l))
    /\ active[l] <= Concurrency

\* No slot is free while a request waits for one: release() hands it over.
NoIdleSlot ==
  \A l \in Limiter : waiting[l] # <<>> => active[l] = Concurrency

\* At most RateLimit fetches start within any window (RateWindow).
RateKept == RateLimit > 0 => Len(sent) <= RateLimit

\* A request whose caller has gone sends nothing more, wherever it was waiting
\* when the signal fired (the throwIfAborted calls of retryingRead).
AbortedSendNothing ==
  [][\A c \in aborted : pc'[c] = "sent" => pc[c] = "sent"]_<<pc, aborted>>

\* Every request ends, in an answer or an error, whatever fails in between.
EveryRequestEnds == \A c \in Call : pc[c] = "ready" ~> pc[c] = "done"
=============================================================================
