--------------------------- MODULE WifiBleProofs ---------------------------
(***************************************************************************)
(* Type correctness, BitTracksLink and OfflineHasRecovery of WifiBle, for  *)
(* any number of retries, credentials, radio events and uses of the        *)
(* screen.                                                                 *)
(*                                                                         *)
(* The argument.  The newest event in the queue says what the radio is     *)
(* (BitOK), so the bit is right once the queue is empty, unless a task     *)
(* cleared it in the meantime; the tasks that do are about to disconnect,  *)
(* or fall back, and a fallback begins only on a link that is gone.        *)
(* Recovery could be lost in two ways: a task gives up the fallback, or    *)
(* the retry task ends, for a link that is gone by then.  Neither happens, *)
(* since the radio acts only when no task has a step to make: the link a   *)
(* task acts on is still there (LinkOK, QueueOK), and while the event task *)
(* falls back the bit stays clear and the fallback stays its own           *)
(* (EventOK).  So an idle radio has something pending or the fallback on   *)
(* (IdleOK), and the fallback has a retry task or a task about to create   *)
(* one (FallbackOK).                                                       *)
(***************************************************************************)
EXTENDS WifiBle, TLAPS

\* The two kinds of event, and how a queue of them is read.
Has(q, e)    == \E i \in DOMAIN q : q[i] = e
Newest(q)    == q[Len(q)]
GotIpLast(q) == \A i \in DOMAIN q : q[i] = "gotip" => i = Len(q)

Connectors == {"boot", "retry", "ui"}
Ensurers   == {"boot", "event"}

\* One of the tasks that connect is at a line of L.
Some(L) == pc["boot"] \in L \/ pc["retry"] \in L \/ pc["ui"] \in L

\* Each task has its own lines.
TasksOK ==
    /\ pc["boot"] \in {"start", "lock", "disc", "conn", "wait", "ensure", "clear", "e_pause",
                       "enable", "init", "e_check", "giveup", "off"}
    /\ pc["event"] \in {"idle", "reconnect", "ensure", "clear", "e_pause", "enable", "init",
                        "e_check", "giveup"}
    /\ pc["retry"] \in {"off", "top", "sleep", "disable", "resume", "lock", "disc", "conn",
                        "wait", "won", "pause", "enable", "init", "fin"}
    /\ pc["post"] \in {"off", "begin", "ready", "disable", "resume", "end"}
    /\ pc["ui"] \in {"off", "lock", "disc", "conn", "wait"}
    /\ pc["event"] = "reconnect" => retryNum < MaxRetry

\* The mutex covers the two calls of the driver, and the flags of the two tasks that
\* are created say whether they exist.
LocksOK ==
    /\ \A a \in Connectors : opMutex = a <=> pc[a] \in {"disc", "conn"}
    /\ opMutex \in {"none", "boot", "retry", "ui"}
    /\ reconf <=> opMutex # "none"
    /\ retryRun <=> pc["retry"] # "off"
    /\ postRun <=> pc["post"] # "off"

\* Before boot begins there is nothing; the screen exists once it has ended.
BootOK ==
    /\ pc["boot"] = "start" =>
         /\ radio = "idle" /\ events = <<>> /\ ~connBit /\ ~fallback /\ ~menu
         /\ pc["event"] = "idle" /\ pc["retry"] = "off" /\ pc["post"] = "off" /\ pc["ui"] = "off"
    /\ menu => pc["boot"] = "off"
    /\ pc["ui"] # "off" => menu
    /\ manualOff /\ ~menu => pc["boot"] = "start"

\* The bit and the events that are queued agree with the radio, but for a task that
\* has cleared the bit and is about to disconnect, and for a boot that ends BLE-only.
BitOK ==
    /\ radio = "linked" /\ events # <<>> => Newest(events) = "gotip"
    /\ radio = "linked" /\ events = <<>> =>
         \/ connBit \/ Some({"disc"})
         \/ ~menu /\ pc["boot"] \in {"e_pause", "enable", "init", "e_check", "giveup", "off"}
    /\ events # <<>> /\ Newest(events) = "gotip" => radio = "linked"
    /\ events = <<>> /\ connBit => radio = "linked"
    /\ pc["event"] \in {"reconnect", "ensure", "clear"} /\ events = <<>> => radio # "linked"

Base == TasksOK /\ LocksOK /\ BootOK /\ BitOK

\* What follows is about a device whose recovery was not excused.

Ens == {"clear", "e_pause", "enable", "init", "e_check"}

\* No task is about to connect or to give up its attempt.
Steady ==
    /\ ~Some({"lock", "disc", "conn"}) /\ pc["retry"] # "resume"
    /\ failBit => pc["boot"] # "wait" /\ pc["retry"] # "wait"

\* Nor does the event task have anything to do with a loss.
Quiet == Steady /\ pc["event"] = "idle" /\ ~Has(events, "disc")

\* A task acts on a link it has seen.
Acting ==
    \/ pc["post"] = "begin"
    \/ pc["retry"] = "won"
    \/ pc["boot"] = "giveup"
    \/ pc["boot"] \in {"init", "e_check"} /\ lastErr = "link"
    \/ connBit /\ (pc["retry"] \in {"wait", "enable"} \/ pc["boot"] = "enable")

\* While the event task falls back, the bit is clear and stays clear, the fallback is
\* its own, and the retry task does not end.
EventOK ==
    /\ pc["event"] # "idle" => ~connBit
    /\ ~excused =>
         /\ pc["event"] # "giveup"
         /\ pc["event"] \in Ens => fallback
         /\ pc["event"] \in {"init", "e_check"} => lastErr = "ok"
         /\ pc["event"] \in {"enable", "init", "e_check"} => pc["retry"] # "fin"

\* A link that a task acts on is still there, and nothing is about to take it down.
LinkOK ==
    /\ Acting \/ (pc["boot"] \in Ens /\ ~fallback) => radio = "linked" /\ Quiet
    /\ Some({"disc", "conn"}) => ~connBit
    /\ lastErr # "init"

\* So is one whose event is queued; it is the last event.
QueueOK ==
    Has(events, "gotip") =>
        /\ radio = "linked" /\ Steady /\ GotIpLast(events)
        /\ Has(events, "disc") => fallback

\* The retry task ends only while nothing falls back.
RetryEndsOK ==
    /\ pc["retry"] \in {"enable", "top", "fin"} /\ ~fallback => Quiet
    /\ fallback /\ pc["boot"] \in {"enable", "init", "e_check"} => pc["retry"] # "fin"

\* It leaves its delay alone: the others wait, and the fallback is on or the link up.
RetryStartsOK ==
    pc["retry"] \in {"disable", "resume"} =>
        /\ pc["event"] = "idle" /\ pc["boot"] \in {"off", "wait"} /\ pc["ui"] \in {"off", "wait"}
        /\ failBit => pc["boot"] # "wait"
        /\ \/ fallback /\ pc["post"] # "begin" /\ ~Has(events, "gotip")
           \/ radio = "linked" /\ ~Has(events, "disc")

\* A radio that is idle is about to be used, or the event task will look at its loss,
\* or the fallback is on.  A blank device is not promised anything.
IdleOK ==
    ~manualOff /\ radio = "idle" /\ ~Blank =>
        \/ events # <<>>
        \/ pc["event"] \in {"reconnect", "ensure"}
        \/ pc["boot"] \in {"start", "lock", "ensure"}
        \/ Some({"disc", "conn"})
        \/ fallback

\* The fallback has a retry task, or a task that will create one.
FallbackOK ==
    fallback => \/ pc["retry"] \notin {"off", "fin"}
                \/ pc["event"] \in Ens
                \/ pc["boot"] \in Ens \cup {"giveup"}

Recovery == LinkOK /\ QueueOK /\ RetryEndsOK /\ RetryStartsOK /\ IdleOK /\ FallbackOK

\* All of it is about a device that did not restart.
Running == Base /\ EventOK /\ (~excused => Recovery)
IInv == TypeOK /\ (~aborted => Running)

-----------------------------------------------------------------------------
(* The queue of events, and the moves of the tasks.                        *)

Kinds == {"gotip", "disc"}

\* A queue with one more event.
LEMMA QueueAppend ==
    ASSUME NEW q \in Seq(Kinds), NEW e \in Kinds
    PROVE  /\ Append(q, e) \in Seq(Kinds) /\ Append(q, e) # <<>> /\ Newest(Append(q, e)) = e
           /\ \A x : Has(Append(q, e), x) <=> Has(q, x) \/ x = e
           /\ ~Has(q, "gotip") => GotIpLast(Append(q, e))
<1> DEFINE n == Len(q)
           longer == Append(q, e)
<1>1. /\ longer \in Seq(Kinds) /\ Len(longer) = n + 1 /\ n \in Nat
      /\ longer[n + 1] = e /\ \A i \in 1..n : longer[i] = q[i]
      /\ DOMAIN q = 1..n /\ DOMAIN longer = 1..(n + 1)
  OBVIOUS
<1>2. \A i : i \in 1..(n + 1) <=> i \in 1..n \/ i = n + 1
  BY <1>1
<1> HIDE DEF n, longer
<1>3. longer # <<>> /\ Newest(longer) = e
  BY <1>1 DEF Newest
<1>4. \A x : Has(longer, x) <=> Has(q, x) \/ x = e
  BY <1>1, <1>2 DEF Has
<1>5. ~Has(q, "gotip") => GotIpLast(longer)
  BY <1>1, <1>2 DEF Has, GotIpLast
<1> QED
  BY <1>1, <1>3, <1>4, <1>5 DEF longer

\* A queue without its first event.
LEMMA QueueTail ==
    ASSUME NEW q \in Seq(Kinds), q # <<>>
    PROVE  /\ Tail(q) \in Seq(Kinds) /\ Head(q) \in Kinds
           /\ \A x : Has(Tail(q), x) => Has(q, x)
           /\ \A x : Has(q, x) => Has(Tail(q), x) \/ Head(q) = x
           /\ Has(q, Head(q))
           /\ Tail(q) = <<>> => Newest(q) = Head(q)
           /\ Tail(q) # <<>> => Newest(Tail(q)) = Newest(q)
           /\ GotIpLast(q) => GotIpLast(Tail(q)) /\ (Head(q) = "gotip" => Tail(q) = <<>>)
<1> DEFINE n == Len(q)
           rest == Tail(q)
<1>1. /\ rest \in Seq(Kinds) /\ n \in Nat /\ n >= 1 /\ Len(rest) = n - 1 /\ Head(q) = q[1]
      /\ DOMAIN q = 1..n /\ DOMAIN rest = 1..(n - 1) /\ \A i \in 1..(n - 1) : rest[i] = q[i + 1]
      /\ q[1] \in Kinds
  OBVIOUS
<1>2. rest = <<>> <=> n = 1
  BY <1>1
<1> HIDE DEF n, rest
<1>3. \A x : Has(rest, x) => Has(q, x)
  BY <1>1 DEF Has
<1>4. ASSUME NEW x, Has(q, x) PROVE Has(rest, x) \/ Head(q) = x
  <2>1. PICK i \in 1..n : q[i] = x
    BY <1>1, <1>4 DEF Has
  <2>2. CASE i = 1
    BY <1>1, <2>1, <2>2
  <2>3. CASE i # 1
    <3>1. i - 1 \in 1..(n - 1) /\ rest[i - 1] = x
      BY <1>1, <2>1, <2>3
    <3> QED
      BY <1>1, <3>1 DEF Has
  <2> QED
    BY <2>2, <2>3
<1>5. Has(q, Head(q)) /\ (rest = <<>> => Newest(q) = Head(q))
  BY <1>1, <1>2 DEF Has, Newest, n
<1>6. rest # <<>> => Newest(rest) = Newest(q)
  BY <1>1, <1>2 DEF Newest, n
<1>7. GotIpLast(q) => GotIpLast(rest) /\ (Head(q) = "gotip" => rest = <<>>)
  BY <1>1, <1>2 DEF GotIpLast, n
<1> QED
  BY <1>1, <1>3, <1>4, <1>5, <1>6, <1>7 DEF rest

\* What a queue holds, by its newest event.
LEMMA QueueFacts ==
    ASSUME NEW q \in Seq(Kinds)
    PROVE  /\ q = <<>> => \A x : ~Has(q, x)
           /\ q # <<>> => Newest(q) \in Kinds /\ Has(q, Newest(q))
           /\ Has(q, "gotip") /\ GotIpLast(q) => Newest(q) = "gotip"
<1>1. DOMAIN q = 1..Len(q) /\ Len(q) \in Nat /\ (q = <<>> <=> Len(q) = 0)
  OBVIOUS
<1>2. q # <<>> => Len(q) \in 1..Len(q) /\ q[Len(q)] \in Kinds
  BY <1>1
<1> QED
  BY <1>1, <1>2 DEF Has, Newest, GotIpLast

\* A move of one task.
LEMMA Moved ==
    ASSUME TypeOK, NEW a \in Actors, NEW l \in Lines, Goto(a, l)
    PROVE  /\ pc' \in [Actors -> Lines] /\ pc'[a] = l
           /\ \A b \in Actors : b # a => pc'[b] = pc[b]
  BY DEF Goto, TypeOK

\* When no task has a step to make.
LEMMA Calm ==
    ASSUME TasksOK, NoStepReady
    PROVE  /\ pc["event"] \in {"e_pause", "init"} \/ (pc["event"] = "idle" /\ events = <<>>)
           /\ pc["post"] \in {"off", "disable"} /\ pc["ui"] \in {"off", "wait"}
           /\ pc["boot"] \in {"off", "wait", "e_pause", "init"}
           /\ pc["retry"] \in {"off", "sleep", "wait", "disable", "init", "pause"}
           /\ "wait" \in {pc["boot"], pc["retry"]} => ~connBit /\ ~failBit
           /\ pc["ui"] = "wait" => ~connBit
  BY DEF TasksOK, NoStepReady, Waiting, SlowCalls, Actors

\* And when no slow call is in progress either.
LEMMA Still ==
    ASSUME TasksOK, SecondsPass
    PROVE  /\ pc["event"] = "idle" /\ events = <<>> /\ pc["post"] = "off"
           /\ pc["ui"] \in {"off", "wait"} /\ pc["boot"] \in {"off", "wait"}
           /\ pc["retry"] \in {"off", "sleep", "wait"}
           /\ "wait" \in {pc["boot"], pc["retry"]} => ~connBit /\ ~failBit
           /\ pc["ui"] = "wait" => ~connBit
  BY DEF TasksOK, SecondsPass, Waiting, Actors

-----------------------------------------------------------------------------
(* Every step keeps the invariant.                                         *)

\* The steps of a task that connects keep the invariant.
LEMMA ConnectOK ==
    ASSUME TypeOK, Running, ~aborted', NEW a \in Connectors, ConnectStep(a)
    PROVE  Running'
<1> USE WifiAssumption
<1> USE DEF Connectors, Ensurers, Actors, TypeOK, Running, Base, TasksOK, LocksOK, BootOK,
            BitOK, EventOK, Recovery, LinkOK, QueueOK, RetryEndsOK, RetryStartsOK, IdleOK,
            FallbackOK, Acting, Quiet, Steady, Some, Ens, Blank
<1>1. CASE SetStaBegin(a)
  <2>1. /\ pc[a] = "lock" /\ opMutex = "none" /\ opMutex' = a
        /\ reconf' /\ ~connBit' /\ ~failBit' /\ retryNum' = 0
        /\ UNCHANGED <<configured, radio, events, fallback, retryRun, postRun, manualOff, menu,
                       lastErr, excused>>
    BY <1>1 DEF SetStaBegin, At, wifi, modes, links, bounds
  <2>2. pc'[a] = "disc" /\ \A b \in Actors : b # a => pc'[b] = pc[b]
    BY <1>1, <2>1, Moved, ZenonT(30) DEF SetStaBegin, At, Lines
  <2> QED
    BY <2>1, <2>2, QueueFacts
<1>2. CASE SetStaDisconnect(a)
  <2>1. /\ pc[a] = "disc" /\ radio' = IF radio = "stopped" THEN "stopped" ELSE "idle"
        /\ events' = IF radio \in {"connecting", "linked"} THEN Append(events, "disc") ELSE events
        /\ UNCHANGED <<connBit, failBit, reconf, retryNum, opMutex, fallback, retryRun,
                       postRun, manualOff, menu, lastErr, excused>>
    BY <1>2 DEF SetStaDisconnect, At, Disconnected, DiscEvents, wifi, modes, links, bounds
  <2>2. pc'[a] = "conn" /\ \A b \in Actors : b # a => pc'[b] = pc[b]
    BY <1>2, <2>1, Moved, ZenonT(30) DEF SetStaDisconnect, At, Disconnected, DiscEvents, Lines
  <2> QED
    BY <2>1, <2>2, QueueFacts, QueueAppend, SMTT(30) DEF Kinds
<1>3. CASE SetStaConnect(a)
  <2>1. /\ pc[a] = "conn" /\ radio = "idle" /\ radio' = "connecting"
        /\ reconf' = FALSE /\ opMutex' = "none"
        /\ UNCHANGED <<configured, connBit, failBit, retryNum, events, fallback, retryRun, postRun,
                       manualOff, menu, lastErr, excused>>
    BY <1>3 DEF SetStaConnect, At, Connecting, wifi, modes, links, bounds
  <2>2. pc'[a] = "wait" /\ \A b \in Actors : b # a => pc'[b] = pc[b]
    BY <1>3, <2>1, Moved, ZenonT(30) DEF SetStaConnect, At, Connecting, Lines
  <2> QED
    BY <2>1, <2>2, QueueFacts
<1>4. CASE WaitConnected(a)
  <2>1. /\ pc[a] = "wait" /\ connBit /\ menu' = (menu \/ a = "boot")
        /\ UNCHANGED <<connBit, failBit, reconf, retryNum, opMutex, radio, configured, events,
                       fallback, retryRun, postRun, manualOff, lastErr, excused>>
    BY <1>4 DEF WaitConnected, At, wifi, modes, links, bounds
  <2>2. /\ pc'[a] = (IF a = "retry" THEN "won" ELSE "off")
        /\ \A b \in Actors : b # a => pc'[b] = pc[b]
    BY <1>4 DEF WaitConnected, Goto
  <2> QED
    BY <2>1, <2>2, QueueFacts
<1>5. CASE WaitFailed(a)
  <2>1. /\ pc[a] = "wait" /\ ~connBit /\ ((failBit /\ a # "ui") \/ SecondsPass)
        /\ UNCHANGED <<connBit, failBit, reconf, retryNum, opMutex, radio, configured, events,
                       fallback, retryRun, postRun, manualOff, menu, lastErr, excused>>
    BY <1>5 DEF WaitFailed, At, wifi, modes, links, bounds
  <2>2. /\ pc'[a] \in {"off", "lock", "ensure", "pause"} /\ (pc'[a] = "off" <=> a = "ui")
        /\ pc'[a] = "ensure" => a = "boot"
        /\ pc'[a] = "pause" => a = "retry"
        /\ \A b \in Actors : b # a => pc'[b] = pc[b]
    <3>1. PICK l \in {"off", "lock", "ensure", "pause"} :
            /\ pc' = [pc EXCEPT ![a] = l] /\ (l = "off" <=> a = "ui")
            /\ (l = "ensure" => a = "boot") /\ (l = "pause" => a = "retry")
      BY <1>5 DEF WaitFailed, Goto, Connectors
    <3>2. pc'[a] = l /\ \A b \in Actors : b # a => pc'[b] = pc[b]
      BY <3>1 DEF TypeOK, Connectors, Actors
    <3> QED
      BY <3>1, <3>2
  <2> QED
    BY <2>1, <2>2, Still, QueueFacts
<1> QED
  BY <1>1, <1>2, <1>3, <1>4, <1>5 DEF ConnectStep

\* So do those of the radio, which acts when no task has a step to make.
LEMMA RadioOK ==
    ASSUME TypeOK, Running, ~aborted', RadioStep
    PROVE  Running'
<1> USE WifiAssumption
<1> USE DEF Connectors, Ensurers, Actors, TypeOK, Running, Base, TasksOK, LocksOK, BootOK,
            BitOK, EventOK, Recovery, LinkOK, QueueOK, RetryEndsOK, RetryStartsOK, IdleOK,
            FallbackOK, Acting, Quiet, Steady, Some, Ens, Blank
<1>1. CASE RadioLink
  <2>1. /\ NoStepReady /\ radio = "connecting" /\ radio' = "linked"
        /\ events' = Append(events, "gotip")
        /\ excused' = excused
        /\ UNCHANGED pc
        /\ UNCHANGED <<configured, connBit, failBit, reconf, retryNum, opMutex, fallback, retryRun,
                       postRun, manualOff, menu, lastErr>>
    BY <1>1 DEF RadioLink, Radio, wifi, modes, links, bounds
  <2> QED
    BY <2>1, Calm, Still, QueueFacts, QueueAppend DEF Kinds
<1>2. CASE RadioFail
  <2>1. /\ NoStepReady /\ radio = "connecting" /\ radio' = "idle"
        /\ events' = Append(events, "disc")
        /\ excused' = excused
        /\ UNCHANGED pc
        /\ UNCHANGED <<configured, connBit, failBit, reconf, retryNum, opMutex, fallback, retryRun,
                       postRun, manualOff, menu, lastErr>>
    BY <1>2 DEF RadioFail, Radio, wifi, modes, links, bounds
  <2> QED
    BY <2>1, Calm, Still, QueueFacts, QueueAppend DEF Kinds
<1>3. CASE RadioDrop
  <2>1. /\ NoStepReady /\ radio = "linked" /\ radio' = "idle" /\ events' = Append(events, "disc")
        /\ excused' = (excused \/ ~SecondsPass)
        /\ UNCHANGED pc
        /\ UNCHANGED <<configured, connBit, failBit, reconf, retryNum, opMutex, fallback, retryRun,
                       postRun, manualOff, menu, lastErr>>
    BY <1>3 DEF RadioDrop, Radio, wifi, modes, links, bounds
  <2>2. Base' /\ EventOK'
    BY <2>1, Calm, QueueFacts, QueueAppend DEF Kinds
  <2>3. ASSUME ~excused' PROVE Recovery'
    <3>1. SecondsPass /\ ~excused
      BY <2>1, <2>3
    <3> QED
      BY <2>1, <3>1, Still, QueueFacts, QueueAppend DEF Kinds
  <2> QED
    BY <2>2, <2>3
<1> QED
  BY <1>1, <1>2, <1>3 DEF RadioStep

\* Those of the event task: a link, a loss, and its attempts to connect again.
LEMMA EventTaskOK ==
    ASSUME TypeOK, Running, ~aborted', EventGotIp \/ EventDisconnected \/ EventReconnect
    PROVE  Running'
<1> USE WifiAssumption
<1> USE DEF Connectors, Ensurers, Actors, TypeOK, Running, Base, TasksOK, LocksOK, BootOK,
            BitOK, EventOK, Recovery, LinkOK, QueueOK, RetryEndsOK, RetryStartsOK, IdleOK,
            FallbackOK, Acting, Quiet, Steady, Some, Ens, Blank
<1>1. CASE EventGotIp
  <2>1. /\ pc["event"] = "idle" /\ events # <<>> /\ Head(events) = "gotip"
        /\ events' = Tail(events) /\ retryNum' = 0 /\ connBit' = TRUE /\ postRun' = TRUE
        /\ UNCHANGED <<configured, failBit, reconf, opMutex, radio, fallback, retryRun,
                       manualOff, menu, lastErr, excused>>
    BY <1>1 DEF EventGotIp, At, links, bounds
  <2>2. /\ pc'["post"] = IF postRun THEN pc["post"] ELSE "begin"
        /\ \A b \in Actors : b # "post" => pc'[b] = pc[b]
    BY <1>1, Moved DEF EventGotIp, Lines
  <2>3. /\ events' \in Seq(Kinds) /\ Has(events, "gotip")
        /\ \A x : Has(events', x) => Has(events, x)
        /\ events' # <<>> => Newest(events') = Newest(events)
        /\ events' = <<>> => Newest(events) = "gotip"
        /\ GotIpLast(events) => events' = <<>>
    BY <2>1, QueueTail DEF Kinds
  <2>4. Base' /\ EventOK'
    BY <2>1, <2>2, <2>3, QueueFacts DEF Kinds
  <2>5. ~excused' => Recovery'
    BY <2>1, <2>2, <2>3, QueueFacts DEF Kinds
  <2> QED
    BY <2>4, <2>5
<1>2. CASE EventDisconnected
  <2>1. /\ pc["event"] = "idle" /\ events # <<>> /\ Head(events) = "disc"
        /\ events' = Tail(events) /\ connBit' = FALSE
        /\ UNCHANGED <<configured, reconf, opMutex, retryNum, radio, fallback, retryRun,
                       postRun, manualOff, menu, lastErr, excused>>
    BY <1>2 DEF EventDisconnected, At, modes, links, bounds
  <2>2. CASE reconf \/ fallback \/ (retryNum < MaxRetry /\ manualOff)
    <3>1. UNCHANGED <<failBit, pc>>
      BY <1>2, <2>2 DEF EventDisconnected
    <3> QED
      BY <2>1, <2>2, <3>1, QueueFacts, QueueTail DEF Kinds
  <2>3. CASE ~reconf /\ ~fallback /\ ~manualOff /\ retryNum < MaxRetry
    <3>1. failBit' = failBit /\ Goto("event", "reconnect")
      BY <1>2, <2>3 DEF EventDisconnected
    <3>2. pc'["event"] = "reconnect" /\ \A b \in Actors : b # "event" => pc'[b] = pc[b]
      BY <3>1, Moved DEF Lines
    <3> QED
      BY <2>1, <2>3, <3>1, <3>2, QueueFacts, QueueTail DEF Kinds
  <2>4. CASE ~reconf /\ ~fallback /\ ~(retryNum < MaxRetry)
    <3>1. failBit' = TRUE /\ Goto("event", IF manualOff THEN "idle" ELSE "ensure")
      BY <1>2, <2>4 DEF EventDisconnected
    <3>2. pc'["event"] = (IF manualOff THEN "idle" ELSE "ensure")
          /\ \A b \in Actors : b # "event" => pc'[b] = pc[b]
      BY <3>1, Moved DEF Lines
    <3> QED
      BY <2>1, <2>4, <3>1, <3>2, QueueFacts, QueueTail DEF Kinds
  <2> QED
    BY <2>2, <2>3, <2>4
<1>3. CASE EventReconnect
  <2>1. /\ pc["event"] = "reconnect" /\ retryNum' = retryNum + 1
        /\ radio' = IF radio = "idle" THEN "connecting" ELSE radio
        /\ UNCHANGED <<configured, connBit, failBit, reconf, opMutex, events, fallback,
                       retryRun, postRun, manualOff, menu, lastErr, excused>>
    BY <1>3 DEF EventReconnect, At, Connecting, modes, links, bounds
  <2>2. pc'["event"] = "idle" /\ \A b \in Actors : b # "event" => pc'[b] = pc[b]
    BY <1>3, Moved DEF EventReconnect, Lines
  <2> QED
    BY <2>1, <2>2, QueueFacts
<1> QED
  BY <1>1, <1>2, <1>3

\* Those of the two tasks that fall back to BLE.
LEMMA EnsureOK ==
    ASSUME TypeOK, Running, ~aborted', NEW a \in Ensurers, EnsureStep(a)
    PROVE  Running'
<1> USE WifiAssumption
<1> USE DEF Connectors, Ensurers, Actors, TypeOK, Running, Base, TasksOK, LocksOK, BootOK,
            BitOK, EventOK, Recovery, LinkOK, QueueOK, RetryEndsOK, RetryStartsOK, IdleOK,
            FallbackOK, Acting, Quiet, Steady, Some, Ens, Blank
<1>1. CASE EnsureClaim(a)
  <2>1. /\ pc[a] = "ensure"
        /\ UNCHANGED <<configured, connBit, failBit, reconf, retryNum, opMutex, radio, events,
                       retryRun, postRun, manualOff, menu, lastErr, excused>>
    BY <1>1 DEF EnsureClaim, At, Done, wifi, modes, links, bounds
  <2>2. \A b \in Actors : b # a => pc'[b] = pc[b]
    BY <1>1 DEF EnsureClaim, Goto
  <2>3. CASE manualOff \/ fallback
    <3>1. pc'[a] = (IF a = "event" THEN "idle" ELSE "off") /\ fallback' = fallback
      BY <1>1, <2>3 DEF EnsureClaim, Goto, Done
    <3> QED
      BY <2>1, <2>2, <2>3, <3>1, QueueFacts
  <2>4. CASE ~manualOff /\ ~fallback
    <3>1. pc'[a] = "clear" /\ fallback' = TRUE
      BY <1>1, <2>4 DEF EnsureClaim, Goto
    <3> QED
      BY <2>1, <2>2, <2>4, <3>1, QueueFacts
  <2> QED
    BY <2>3, <2>4
<1>2. CASE EnsureClear(a)
  <2>1. /\ pc[a] = "clear" /\ connBit' = FALSE
        /\ UNCHANGED <<failBit, reconf, retryNum, opMutex, radio, configured, events, fallback,
                       retryRun, postRun, manualOff, menu, lastErr, excused>>
    BY <1>2 DEF EnsureClear, At, wifi, modes, links, bounds
  <2>2. pc'[a] = "e_pause" /\ \A b \in Actors : b # a => pc'[b] = pc[b]
    BY <1>2, <2>1, Moved, ZenonT(30) DEF EnsureClear, At, Lines
  <2> QED
    BY <2>1, <2>2, QueueFacts
<1>3. CASE EnsureFailed(a)
  <2>1. /\ pc[a] = "e_check" /\ lastErr # "ok"
        /\ UNCHANGED <<connBit, failBit, reconf, retryNum, opMutex, radio, configured, events,
                       fallback, retryRun, postRun, manualOff, menu, lastErr, excused>>
    BY <1>3 DEF EnsureFailed, At, wifi, modes, links, bounds
  <2>2. pc'[a] = "giveup" /\ \A b \in Actors : b # a => pc'[b] = pc[b]
    BY <1>3, <2>1, Moved, ZenonT(30) DEF EnsureFailed, At, Lines
  <2> QED
    BY <2>1, <2>2, QueueFacts
<1>4. CASE EnsureGiveUp(a)
  <2>1. /\ pc[a] = "giveup" /\ fallback' = FALSE
        /\ UNCHANGED <<configured, connBit, failBit, reconf, retryNum, opMutex, radio, events,
                       retryRun, postRun, manualOff, menu, lastErr, excused>>
    BY <1>4 DEF EnsureGiveUp, At, Done, wifi, modes, links, bounds
  <2>2. /\ pc'[a] = (IF a = "event" THEN "idle" ELSE "off")
        /\ \A b \in Actors : b # a => pc'[b] = pc[b]
    <3>1. pc' = [pc EXCEPT ![a] = IF a = "event" THEN "idle" ELSE "off"]
      BY <1>4 DEF EnsureGiveUp, Goto, Done, Ensurers
    <3> QED
      BY <3>1 DEF TypeOK, Ensurers, Actors
  <2> QED
    BY <2>1, <2>2, QueueFacts
<1>5. CASE EnsureSpawn(a)
  <2>1. /\ pc[a] = "e_check" /\ lastErr = "ok" /\ retryRun' = TRUE
        /\ UNCHANGED <<connBit, failBit, reconf, retryNum, opMutex, radio, configured, events,
                       fallback, postRun, manualOff, menu, lastErr, excused>>
    BY <1>5 DEF EnsureSpawn, At, wifi, modes, links, bounds
  <2>2. /\ pc'[a] = (IF a = "event" THEN "idle" ELSE "off")
        /\ pc'["retry"] = IF retryRun THEN pc["retry"] ELSE "top"
        /\ \A b \in Actors : b \notin {a, "retry"} => pc'[b] = pc[b]
    BY <1>5 DEF EnsureSpawn, Goto, Done
  <2> QED
    BY <2>1, <2>2, QueueFacts
<1> QED
  BY <1>1, <1>2, <1>3, <1>4, <1>5 DEF EnsureStep

\* The stop of MQTT and the start of the BLE host, by any of them.
LEMMA EnableOK ==
    ASSUME TypeOK, Running, ~aborted', NEW a \in {"boot", "event", "retry"}, EnableStep(a)
    PROVE  Running'
<1> USE WifiAssumption
<1> USE DEF Connectors, Ensurers, Actors, TypeOK, Running, Base, TasksOK, LocksOK, BootOK,
            BitOK, EventOK, Recovery, LinkOK, QueueOK, RetryEndsOK, RetryStartsOK, IdleOK,
            FallbackOK, Acting, Quiet, Steady, Some, Ens, Blank
<1>1. CASE PauseMqtt(a)
  <2>1. /\ pc[a] \in {"e_pause", "pause"} /\ NoStepReady
        /\ UNCHANGED <<connBit, failBit, reconf, retryNum, opMutex, radio, configured, events,
                       fallback, retryRun, postRun, manualOff, menu, lastErr, excused>>
    BY <1>1 DEF PauseMqtt, At, wifi, modes, links, bounds
  <2>2. pc'[a] = "enable" /\ \A b \in Actors : b # a => pc'[b] = pc[b]
    BY <1>1, <2>1, Moved, ZenonT(30) DEF PauseMqtt, At, Lines
  <2> QED
    BY <2>1, <2>2, Calm, QueueFacts
<1>2. CASE BleEnable(a)
  <2>1. /\ pc[a] = "enable" /\ lastErr' = IF connBit THEN "link" ELSE "ok"
        /\ UNCHANGED <<connBit, failBit, reconf, retryNum, opMutex, radio, configured, events,
                       fallback, retryRun, postRun, manualOff, menu, excused>>
    BY <1>2 DEF BleEnable, At, wifi, modes, links, bounds
  <2>2. /\ pc'[a] \in {"init", IF a = "retry" THEN "top" ELSE "e_check"}
        /\ connBit => pc'[a] = IF a = "retry" THEN "top" ELSE "e_check"
        /\ \A b \in Actors : b # a => pc'[b] = pc[b]
    BY <1>2 DEF BleEnable, AfterEnable, Goto
  <2> QED
    BY <2>1, <2>2, QueueFacts
<1>3. CASE BleInit(a)
  <2>1. /\ pc[a] = "init" /\ NoStepReady
        /\ \/ UNCHANGED <<lastErr, excused>>
           \/ lastErr' = "init" /\ excused' = TRUE
        /\ UNCHANGED <<connBit, failBit, reconf, retryNum, opMutex, radio, configured, events,
                       fallback, retryRun, postRun, manualOff, menu>>
    BY <1>3 DEF BleInit, At, wifi, modes, links, bounds
  <2>2. /\ pc'[a] = IF a = "retry" THEN "top" ELSE "e_check"
        /\ \A b \in Actors : b # a => pc'[b] = pc[b]
    BY <1>3 DEF BleInit, AfterEnable, Goto
  <2> QED
    BY <2>1, <2>2, Calm, QueueFacts
<1> QED
  BY <1>1, <1>2, <1>3 DEF EnableStep

\* The steps of the retry task.
LEMMA RetryTaskOK ==
    ASSUME TypeOK, Running, ~aborted',
           RetryTop \/ RetryWake \/ RetryWon \/ RetryEnd \/ LeaveStep("retry")
    PROVE  Running'
<1> USE WifiAssumption
<1> USE DEF Connectors, Ensurers, Actors, TypeOK, Running, Base, TasksOK, LocksOK, BootOK,
            BitOK, EventOK, Recovery, LinkOK, QueueOK, RetryEndsOK, RetryStartsOK, IdleOK,
            FallbackOK, Acting, Quiet, Steady, Some, Ens, Blank
<1>1. CASE RetryTop
  <2>1. /\ pc["retry"] = "top"
        /\ UNCHANGED <<connBit, failBit, reconf, retryNum, opMutex, radio, configured, events,
                       fallback, retryRun, postRun, manualOff, menu, lastErr, excused>>
    BY <1>1 DEF RetryTop, At, wifi, modes, links, bounds
  <2>2. /\ pc'["retry"] = (IF fallback THEN "sleep" ELSE "fin")
        /\ \A b \in Actors : b # "retry" => pc'[b] = pc[b]
    BY <1>1, <2>1, Moved DEF RetryTop, At, Lines
  <2> QED
    BY <2>1, <2>2, QueueFacts
<1>2. CASE RetryWake
  <2>1. /\ pc["retry"] = "sleep" /\ SecondsPass
        /\ UNCHANGED <<connBit, failBit, reconf, retryNum, opMutex, radio, configured, events,
                       fallback, retryRun, postRun, manualOff, menu, lastErr, excused>>
    BY <1>2 DEF RetryWake, At, wifi, modes, links, bounds
  <2>2. /\ pc'["retry"] = (IF ~fallback THEN "fin" ELSE IF manualOff THEN "top" ELSE "disable")
        /\ \A b \in Actors : b # "retry" => pc'[b] = pc[b]
    BY <1>2, <2>1, Moved DEF RetryWake, At, Lines
  <2> QED
    BY <2>1, <2>2, Still, QueueFacts
<1>3. CASE RetryWon
  <2>1. /\ pc["retry"] = "won" /\ fallback' = FALSE
        /\ UNCHANGED <<configured, connBit, failBit, reconf, retryNum, opMutex, radio, events,
                       retryRun, postRun, manualOff, menu, lastErr, excused>>
    BY <1>3 DEF RetryWon, At, wifi, modes, links, bounds
  <2>2. pc'["retry"] = "fin" /\ \A b \in Actors : b # "retry" => pc'[b] = pc[b]
    BY <1>3, <2>1, Moved DEF RetryWon, At, Lines
  <2> QED
    BY <2>1, <2>2, QueueFacts
<1>4. CASE RetryEnd
  <2>1. /\ pc["retry"] = "fin" /\ retryRun' = FALSE
        /\ UNCHANGED <<connBit, failBit, reconf, retryNum, opMutex, radio, configured, events,
                       fallback, postRun, manualOff, menu, lastErr, excused>>
    BY <1>4 DEF RetryEnd, At, wifi, modes, links, bounds
  <2>2. pc'["retry"] = "off" /\ \A b \in Actors : b # "retry" => pc'[b] = pc[b]
    BY <1>4, <2>1, Moved DEF RetryEnd, At, Lines
  <2> QED
    BY <2>1, <2>2, QueueFacts
<1>5. CASE BleDisable("retry")
  <2>1. /\ pc["retry"] = "disable" /\ NoStepReady
        /\ UNCHANGED <<connBit, failBit, reconf, retryNum, opMutex, radio, configured, events,
                       fallback, retryRun, postRun, manualOff, menu, lastErr, excused>>
    BY <1>5 DEF BleDisable, At, wifi, modes, links, bounds
  <2>2. pc'["retry"] = "resume" /\ \A b \in Actors : b # "retry" => pc'[b] = pc[b]
    BY <1>5, <2>1, Moved DEF BleDisable, At, Lines
  <2> QED
    BY <2>1, <2>2, Calm, QueueFacts
<1>6. CASE ResumeMqtt("retry")
  <2>1. /\ pc["retry"] = "resume"
        /\ UNCHANGED <<connBit, failBit, reconf, retryNum, opMutex, radio, configured, events,
                       fallback, retryRun, postRun, manualOff, menu, lastErr, excused>>
    BY <1>6 DEF ResumeMqtt, At, TryFrom, wifi, modes, links, bounds
  <2>2. /\ pc'["retry"] = (IF NCreds > 0 THEN "lock" ELSE "pause")
        /\ \A b \in Actors : b # "retry" => pc'[b] = pc[b]
    BY <1>6, <2>1, Moved DEF ResumeMqtt, At, TryFrom, Lines
  <2> QED
    BY <2>1, <2>2, QueueFacts
<1> QED
  BY <1>1, <1>2, <1>3, <1>4, <1>5, <1>6 DEF LeaveStep

\* Those of the post-connect task.
LEMMA PostTaskOK ==
    ASSUME TypeOK, Running, ~aborted', PostBegin \/ PostReady \/ PostEnd \/ LeaveStep("post")
    PROVE  Running'
<1> USE WifiAssumption
<1> USE DEF Connectors, Ensurers, Actors, TypeOK, Running, Base, TasksOK, LocksOK, BootOK,
            BitOK, EventOK, Recovery, LinkOK, QueueOK, RetryEndsOK, RetryStartsOK, IdleOK,
            FallbackOK, Acting, Quiet, Steady, Some, Ens, Blank
<1>1. CASE PostBegin
  <2>1. /\ pc["post"] = "begin" /\ fallback' = FALSE
        /\ UNCHANGED <<configured, connBit, failBit, reconf, retryNum, opMutex, radio, events,
                       retryRun, postRun, manualOff, menu, lastErr, excused>>
    BY <1>1 DEF PostBegin, At, wifi, modes, links, bounds
  <2>2. pc'["post"] = "ready" /\ \A b \in Actors : b # "post" => pc'[b] = pc[b]
    BY <1>1, <2>1, Moved DEF PostBegin, At, Lines
  <2> QED
    BY <2>1, <2>2, QueueFacts
<1>2. CASE PostReady
  <2>1. /\ pc["post"] = "ready"
        /\ UNCHANGED <<connBit, failBit, reconf, retryNum, opMutex, radio, configured, events,
                       fallback, retryRun, postRun, manualOff, menu, lastErr, excused>>
    BY <1>2 DEF PostReady, At, wifi, modes, links, bounds
  <2>2. /\ pc'["post"] = (IF bleOn THEN "disable" ELSE "end")
        /\ \A b \in Actors : b # "post" => pc'[b] = pc[b]
    BY <1>2, <2>1, Moved DEF PostReady, At, Lines
  <2> QED
    BY <2>1, <2>2, QueueFacts
<1>3. CASE PostEnd
  <2>1. /\ pc["post"] = "end" /\ postRun' = FALSE
        /\ UNCHANGED <<connBit, failBit, reconf, retryNum, opMutex, radio, configured, events,
                       fallback, retryRun, manualOff, menu, lastErr, excused>>
    BY <1>3 DEF PostEnd, At, wifi, modes, links, bounds
  <2>2. pc'["post"] = "off" /\ \A b \in Actors : b # "post" => pc'[b] = pc[b]
    BY <1>3, <2>1, Moved DEF PostEnd, At, Lines
  <2> QED
    BY <2>1, <2>2, QueueFacts
<1>4. CASE BleDisable("post")
  <2>1. /\ pc["post"] = "disable"
        /\ UNCHANGED <<connBit, failBit, reconf, retryNum, opMutex, radio, configured, events,
                       fallback, retryRun, postRun, manualOff, menu, lastErr, excused>>
    BY <1>4 DEF BleDisable, At, wifi, modes, links, bounds
  <2>2. pc'["post"] = "resume" /\ \A b \in Actors : b # "post" => pc'[b] = pc[b]
    BY <1>4, <2>1, Moved DEF BleDisable, At, Lines
  <2> QED
    BY <2>1, <2>2, QueueFacts
<1>5. CASE ResumeMqtt("post")
  <2>1. /\ pc["post"] = "resume"
        /\ UNCHANGED <<connBit, failBit, reconf, retryNum, opMutex, radio, configured, events,
                       fallback, retryRun, postRun, manualOff, menu, lastErr, excused>>
    BY <1>5 DEF ResumeMqtt, At, wifi, modes, links, bounds
  <2>2. pc'["post"] = "end" /\ \A b \in Actors : b # "post" => pc'[b] = pc[b]
    BY <1>5, <2>1, Moved DEF ResumeMqtt, At, Lines
  <2> QED
    BY <2>1, <2>2, QueueFacts
<1> QED
  BY <1>1, <1>2, <1>3, <1>4, <1>5 DEF LeaveStep

\* Those of boot, of the user, and the start of MQTT.
LEMMA UserOK ==
    ASSUME TypeOK, Running, ~aborted', Boot \/ UiConnect \/ UiOff \/ UiOn \/ NotifStart
    PROVE  Running'
<1> USE WifiAssumption
<1> USE DEF Connectors, Ensurers, Actors, TypeOK, Running, Base, TasksOK, LocksOK, BootOK,
            BitOK, EventOK, Recovery, LinkOK, QueueOK, RetryEndsOK, RetryStartsOK, IdleOK,
            FallbackOK, Acting, Quiet, Steady, Some, Ens, Blank
<1>1. CASE Boot
  <2>1. /\ pc["boot"] = "start"
        /\ \/ manualOff /\ radio' = "stopped" /\ menu' = TRUE
           \/ ~manualOff /\ UNCHANGED <<radio, menu>>
        /\ UNCHANGED <<configured, connBit, failBit, reconf, retryNum, opMutex, events, fallback,
                       retryRun, postRun, manualOff, lastErr, excused>>
    BY <1>1 DEF Boot, At, TryFrom, wifi, modes, links, bounds
  <2>2. /\ pc'["boot"] = (IF manualOff THEN "off" ELSE IF NCreds > 0 THEN "lock" ELSE "ensure")
        /\ \A b \in Actors : b # "boot" => pc'[b] = pc[b]
    BY <1>1, <2>1, Moved, ZenonT(30) DEF Boot, At, TryFrom, Lines
  <2> QED
    BY <2>1, <2>2, QueueFacts
<1>2. CASE UiConnect
  <2>1. /\ SecondsPass /\ menu /\ pc["ui"] = "off"
        /\ UNCHANGED <<connBit, failBit, reconf, retryNum, opMutex, radio, configured, events,
                       fallback, retryRun, postRun, manualOff, menu, lastErr, excused>>
    BY <1>2 DEF UiConnect, UiUse, wifi, modes, links, bounds
  <2>2. pc'["ui"] = "lock" /\ \A b \in Actors : b # "ui" => pc'[b] = pc[b]
    BY <1>2, <2>1, Moved DEF UiConnect, UiUse, Lines
  <2> QED
    BY <2>1, <2>2, Still, QueueFacts
<1>3. CASE UiOff
  <2>1. /\ SecondsPass /\ menu /\ manualOff' = TRUE /\ radio' = "stopped" /\ pc' = pc
        /\ events' = IF radio \in {"connecting", "linked"} THEN Append(events, "disc") ELSE events
        /\ UNCHANGED <<configured, connBit, failBit, reconf, retryNum, opMutex, fallback, retryRun,
                       postRun, menu, lastErr, excused>>
    BY <1>3 DEF UiOff, UiUse, DiscEvents, wifi, modes, links, bounds
  <2> QED
    BY <2>1, Still, QueueFacts, QueueAppend DEF Kinds
<1>4. CASE UiOn
  <2>1. /\ SecondsPass /\ menu /\ manualOff' = FALSE /\ pc' = pc
        /\ radio' = IF radio \notin {"stopped", "idle"} THEN radio
                    ELSE IF configured THEN "connecting" ELSE "idle"
        /\ UNCHANGED <<connBit, failBit, reconf, retryNum, opMutex, configured, events, fallback,
                       retryRun, postRun, menu, lastErr, excused>>
    BY <1>4 DEF UiOn, UiUse, wifi, modes, links, bounds
  <2> QED
    BY <2>1, Still, QueueFacts
<1>5. CASE NotifStart
  <2>1. /\ pc' = pc
        /\ UNCHANGED <<connBit, failBit, reconf, retryNum, opMutex, radio, configured, events,
                       fallback, retryRun, postRun, manualOff, menu, lastErr, excused>>
    BY <1>5 DEF NotifStart, wifi, modes, links, bounds
  <2> QED
    BY <2>1, QueueFacts
<1> QED
  BY <1>1, <1>2, <1>3, <1>4, <1>5 DEF Boot

-----------------------------------------------------------------------------
(* Every step keeps the types.                                             *)

\* The Boolean and the enumerated variables, by the groups a step leaves alone.
RadioFlags ==
    /\ connBit \in BOOLEAN /\ failBit \in BOOLEAN /\ reconf \in BOOLEAN
    /\ opMutex \in Actors \cup {"none"}
    /\ radio \in {"stopped", "idle", "connecting", "linked"} /\ configured \in BOOLEAN
ModeFlags ==
    /\ fallback \in BOOLEAN /\ retryRun \in BOOLEAN /\ postRun \in BOOLEAN
    /\ manualOff \in BOOLEAN /\ menu \in BOOLEAN
LinkFlags ==
    /\ bleOn \in BOOLEAN /\ mqttSet \in BOOLEAN /\ mqttOn \in BOOLEAN
    /\ lastErr \in {"ok", "link", "init"}
EndFlags == aborted \in BOOLEAN /\ excused \in BOOLEAN
Flags == RadioFlags /\ ModeFlags /\ LinkFlags /\ EndFlags

\* Every step keeps the tasks at lines that exist.
LEMMA PcTypes == ASSUME TypeOK, Next PROVE pc' \in [Actors -> Lines]
<1>1. pc \in [Actors -> Lines]
  BY DEF TypeOK
<1>2. \A a \in Actors, l \in Lines : Goto(a, l) => pc' \in [Actors -> Lines]
  BY <1>1 DEF Goto
<1> USE DEF Actors, Lines
<1>3. ASSUME NEW a \in Connectors, ConnectStep(a) PROVE pc' \in [Actors -> Lines]
  BY <1>2, <1>3 DEF Connectors, ConnectStep, SetStaBegin, SetStaDisconnect, SetStaConnect,
     WaitConnected, WaitFailed
<1>4. ASSUME NEW a \in Ensurers, EnsureStep(a) PROVE pc' \in [Actors -> Lines]
  <2>1. CASE EnsureSpawn(a)
    BY <1>1, <1>2, <2>1, SMTT(30) DEF Ensurers, EnsureSpawn, Done
  <2>2. CASE ~EnsureSpawn(a)
    BY <1>2, <1>4, <2>2 DEF Ensurers, EnsureStep, EnsureClaim, EnsureClear, EnsureFailed,
       EnsureGiveUp, Done
  <2> QED
    BY <2>1, <2>2
<1>5. ASSUME NEW a \in Actors, EnableStep(a) \/ LeaveStep(a) PROVE pc' \in [Actors -> Lines]
  <2>1. CASE EnableStep(a)
    BY <1>2, <2>1 DEF EnableStep, PauseMqtt, BleEnable, BleInit, AfterEnable
  <2>2. CASE LeaveStep(a)
    BY <1>2, <2>2 DEF LeaveStep, BleDisable, ResumeMqtt, TryFrom
  <2> QED
    BY <1>5, <2>1, <2>2
<1>6. CASE EventGotIp \/ EventDisconnected \/ EventReconnect
  BY <1>1, <1>2, <1>6 DEF EventGotIp, EventDisconnected, EventReconnect
<1>7. CASE RetryTop \/ RetryWake \/ RetryWon \/ RetryEnd \/ PostBegin \/ PostReady \/ PostEnd
  BY <1>2, <1>7 DEF RetryTop, RetryWake, RetryWon, RetryEnd, PostBegin, PostReady, PostEnd
<1>8. CASE Boot \/ UiConnect \/ UiOff \/ UiOn \/ NotifStart \/ RadioStep
  BY <1>1, <1>2, <1>8 DEF Boot, TryFrom, UiConnect, UiOff, UiOn, NotifStart, RadioStep,
     RadioLink,
     RadioFail, RadioDrop, Radio
<1> QED
  BY <1>3, <1>4, <1>5, <1>6, <1>7, <1>8
  DEF Next, EventStep, BootStep, RetryStep, PostStep, UiStep, Connectors, Ensurers

\* The flags of a group that a step leaves alone.
LEMMA KeepFlags ==
    ASSUME Flags
    PROVE  /\ UNCHANGED wifi => RadioFlags'
           /\ UNCHANGED modes => ModeFlags'
           /\ UNCHANGED links => LinkFlags'
           /\ UNCHANGED <<aborted, excused>> => EndFlags'
<1>1. UNCHANGED wifi => RadioFlags'
  BY DEF Flags, RadioFlags, wifi
<1>2. UNCHANGED modes => ModeFlags'
  BY DEF Flags, ModeFlags, modes
<1>3. UNCHANGED links => LinkFlags'
  BY DEF Flags, LinkFlags, links
<1>4. UNCHANGED <<aborted, excused>> => EndFlags'
  BY DEF Flags, EndFlags
<1> QED
  BY <1>1, <1>2, <1>3, <1>4

\* The steps of a task that connects.
LEMMA ConnectFlags ==
    ASSUME Flags, NEW a \in Connectors, ConnectStep(a)
    PROVE  Flags'
<1>1. CASE SetStaBegin(a)
  <2>1. ModeFlags' /\ LinkFlags' /\ EndFlags'
    BY <1>1, KeepFlags DEF SetStaBegin, bounds
  <2>2. RadioFlags'
    BY <1>1 DEF Flags, RadioFlags, SetStaBegin, Connectors, Actors
  <2> QED
    BY <2>1, <2>2 DEF Flags
<1>2. CASE SetStaDisconnect(a)
  <2>1. ModeFlags' /\ LinkFlags' /\ EndFlags'
    BY <1>2, KeepFlags DEF SetStaDisconnect, bounds
  <2>2. RadioFlags'
    BY <1>2 DEF Flags, RadioFlags, SetStaDisconnect, Disconnected
  <2> QED
    BY <2>1, <2>2 DEF Flags
<1>3. CASE SetStaConnect(a)
  <2>1. ModeFlags' /\ LinkFlags'
    BY <1>3, KeepFlags DEF SetStaConnect, bounds
  <2>2. RadioFlags'
    BY <1>3 DEF Flags, RadioFlags, SetStaConnect, Connecting
  <2>3. EndFlags'
    BY <1>3 DEF Flags, EndFlags, SetStaConnect, bounds
  <2> QED
    BY <2>1, <2>2, <2>3 DEF Flags
<1>4. CASE WaitConnected(a)
  <2>1. RadioFlags' /\ LinkFlags' /\ EndFlags'
    BY <1>4, KeepFlags DEF WaitConnected, bounds
  <2>2. ModeFlags'
    BY <1>4 DEF Flags, ModeFlags, WaitConnected
  <2> QED
    BY <2>1, <2>2 DEF Flags
<1>5. CASE WaitFailed(a)
  <2>1. RadioFlags' /\ ModeFlags' /\ LinkFlags' /\ EndFlags'
    BY <1>5, KeepFlags DEF WaitFailed, bounds
  <2> QED
    BY <2>1 DEF Flags
<1> QED
  BY <1>1, <1>2, <1>3, <1>4, <1>5 DEF ConnectStep

\* Those of a task that falls back or comes back.
LEMMA EnsureFlags ==
    ASSUME Flags, NEW a \in Actors, EnsureStep(a) \/ EnableStep(a) \/ LeaveStep(a)
    PROVE  Flags'
<1>1. CASE EnsureClaim(a)
  <2>1. RadioFlags' /\ LinkFlags' /\ EndFlags'
    BY <1>1, KeepFlags DEF EnsureClaim, bounds
  <2>2. ModeFlags'
    BY <1>1 DEF Flags, ModeFlags, EnsureClaim
  <2> QED
    BY <2>1, <2>2 DEF Flags
<1>2. CASE EnsureGiveUp(a)
  <2>1. RadioFlags' /\ LinkFlags' /\ EndFlags'
    BY <1>2, KeepFlags DEF EnsureGiveUp, bounds
  <2>2. ModeFlags'
    BY <1>2 DEF Flags, ModeFlags, EnsureGiveUp
  <2> QED
    BY <2>1, <2>2 DEF Flags
<1>3. CASE EnsureClear(a)
  <2>1. ModeFlags' /\ LinkFlags' /\ EndFlags'
    BY <1>3, KeepFlags DEF EnsureClear, bounds
  <2>2. RadioFlags'
    BY <1>3 DEF Flags, RadioFlags, EnsureClear
  <2> QED
    BY <2>1, <2>2 DEF Flags
<1>4. CASE EnsureFailed(a)
  <2>1. RadioFlags' /\ ModeFlags' /\ EndFlags'
    BY <1>4, KeepFlags DEF EnsureFailed, bounds
  <2>2. LinkFlags'
    BY <1>4 DEF Flags, LinkFlags, EnsureFailed
  <2> QED
    BY <2>1, <2>2 DEF Flags
<1>5. CASE ResumeMqtt(a)
  <2>1. RadioFlags' /\ ModeFlags' /\ EndFlags'
    BY <1>5, KeepFlags DEF ResumeMqtt, bounds
  <2>2. LinkFlags'
    BY <1>5 DEF Flags, LinkFlags, ResumeMqtt
  <2> QED
    BY <2>1, <2>2 DEF Flags
<1>6. CASE EnsureSpawn(a)
  <2>1. RadioFlags' /\ LinkFlags' /\ EndFlags'
    BY <1>6, KeepFlags DEF EnsureSpawn, bounds
  <2>2. ModeFlags'
    BY <1>6 DEF Flags, ModeFlags, EnsureSpawn
  <2> QED
    BY <2>1, <2>2 DEF Flags
<1>7. CASE PauseMqtt(a)
  <2>1. RadioFlags' /\ ModeFlags' /\ EndFlags'
    BY <1>7, KeepFlags DEF PauseMqtt, bounds
  <2>2. LinkFlags'
    BY <1>7 DEF Flags, LinkFlags, PauseMqtt
  <2> QED
    BY <2>1, <2>2 DEF Flags
<1>8. CASE BleEnable(a)
  <2>1. RadioFlags' /\ ModeFlags' /\ EndFlags'
    BY <1>8, KeepFlags DEF BleEnable, bounds
  <2>2. LinkFlags'
    BY <1>8 DEF Flags, LinkFlags, BleEnable
  <2> QED
    BY <2>1, <2>2 DEF Flags
<1>9. CASE BleInit(a)
  <2>1. RadioFlags' /\ ModeFlags'
    BY <1>9, KeepFlags DEF BleInit, bounds
  <2>2. LinkFlags'
    BY <1>9 DEF Flags, LinkFlags, BleInit
  <2>3. EndFlags'
    BY <1>9 DEF Flags, EndFlags, BleInit
  <2> QED
    BY <2>1, <2>2, <2>3 DEF Flags
<1>10. CASE BleDisable(a)
  <2>1. RadioFlags' /\ ModeFlags' /\ EndFlags'
    BY <1>10, KeepFlags DEF BleDisable, bounds
  <2>2. LinkFlags'
    BY <1>10 DEF Flags, LinkFlags, BleDisable
  <2> QED
    BY <2>1, <2>2 DEF Flags
<1> QED
  BY <1>1, <1>2, <1>3, <1>4, <1>5, <1>6, <1>7, <1>8, <1>9, <1>10 DEF EnsureStep, EnableStep,
     LeaveStep

\* Those of the event task, and the other steps of the retry and the post-connect task.
LEMMA TaskFlags ==
    ASSUME Flags,
           \/ EventGotIp \/ EventDisconnected \/ EventReconnect
           \/ RetryTop \/ RetryWake \/ RetryWon \/ RetryEnd
           \/ PostBegin \/ PostReady \/ PostEnd
    PROVE  Flags'
<1>1. CASE EventGotIp
  <2>1. LinkFlags' /\ EndFlags'
    BY <1>1, KeepFlags DEF EventGotIp, bounds
  <2>2. RadioFlags'
    BY <1>1 DEF Flags, RadioFlags, EventGotIp
  <2>3. ModeFlags'
    BY <1>1 DEF Flags, ModeFlags, EventGotIp
  <2> QED
    BY <2>1, <2>2, <2>3 DEF Flags
<1>2. CASE EventDisconnected
  <2>1. ModeFlags' /\ LinkFlags' /\ EndFlags'
    BY <1>2, KeepFlags DEF EventDisconnected, bounds
  <2>2. RadioFlags'
    BY <1>2 DEF Flags, RadioFlags, EventDisconnected
  <2> QED
    BY <2>1, <2>2 DEF Flags
<1>3. CASE EventReconnect
  <2>1. ModeFlags' /\ LinkFlags' /\ EndFlags'
    BY <1>3, KeepFlags DEF EventReconnect, bounds
  <2>2. RadioFlags'
    BY <1>3 DEF Flags, RadioFlags, EventReconnect, Connecting
  <2> QED
    BY <2>1, <2>2 DEF Flags
<1>4. CASE RetryTop \/ RetryWake \/ PostReady
  <2>1. RadioFlags' /\ ModeFlags' /\ LinkFlags' /\ EndFlags'
    BY <1>4, KeepFlags DEF RetryTop, RetryWake, PostReady, bounds
  <2> QED
    BY <2>1 DEF Flags
<1>5. CASE RetryWon \/ PostBegin
  <2>1. RadioFlags' /\ LinkFlags' /\ EndFlags'
    BY <1>5, KeepFlags DEF RetryWon, PostBegin, bounds
  <2>2. ModeFlags'
    BY <1>5 DEF Flags, ModeFlags, RetryWon, PostBegin
  <2> QED
    BY <2>1, <2>2 DEF Flags
<1>6. CASE RetryEnd \/ PostEnd
  <2>1. RadioFlags' /\ LinkFlags' /\ EndFlags'
    BY <1>6, KeepFlags DEF RetryEnd, PostEnd, bounds
  <2>2. ModeFlags'
    BY <1>6 DEF Flags, ModeFlags, RetryEnd, PostEnd
  <2> QED
    BY <2>1, <2>2 DEF Flags
<1> QED
  BY <1>1, <1>2, <1>3, <1>4, <1>5, <1>6

\* And those of boot, the screen, the notification task and the radio.
LEMMA UserFlags ==
    ASSUME Flags, Boot \/ UiConnect \/ UiOff \/ UiOn \/ NotifStart \/ RadioStep
    PROVE  Flags'
<1>1. CASE Boot
  <2>1. LinkFlags' /\ EndFlags'
    BY <1>1, KeepFlags DEF Boot, bounds
  <2>2. RadioFlags'
    BY <1>1 DEF Flags, RadioFlags, Boot
  <2>3. ModeFlags'
    BY <1>1 DEF Flags, ModeFlags, Boot
  <2> QED
    BY <2>1, <2>2, <2>3 DEF Flags
<1>2. CASE UiConnect
  <2>1. RadioFlags' /\ ModeFlags' /\ LinkFlags' /\ EndFlags'
    BY <1>2, KeepFlags DEF UiConnect, bounds
  <2> QED
    BY <2>1 DEF Flags
<1>3. CASE UiOff
  <2>1. LinkFlags' /\ EndFlags'
    BY <1>3, KeepFlags DEF UiOff, bounds
  <2>2. RadioFlags'
    BY <1>3 DEF Flags, RadioFlags, UiOff
  <2>3. ModeFlags'
    BY <1>3 DEF Flags, ModeFlags, UiOff
  <2> QED
    BY <2>1, <2>2, <2>3 DEF Flags
<1>4. CASE UiOn
  <2>1. LinkFlags' /\ EndFlags'
    BY <1>4, KeepFlags DEF UiOn, bounds
  <2>2. RadioFlags'
    BY <1>4 DEF Flags, RadioFlags, UiOn
  <2>3. ModeFlags'
    BY <1>4 DEF Flags, ModeFlags, UiOn
  <2> QED
    BY <2>1, <2>2, <2>3 DEF Flags
<1>5. CASE NotifStart
  <2>1. RadioFlags' /\ ModeFlags' /\ EndFlags'
    BY <1>5, KeepFlags DEF NotifStart, bounds
  <2>2. LinkFlags'
    BY <1>5 DEF Flags, LinkFlags, NotifStart
  <2> QED
    BY <2>1, <2>2 DEF Flags
<1>6. CASE RadioStep
  <2>1. ModeFlags' /\ LinkFlags'
    BY <1>6, KeepFlags DEF RadioStep, RadioLink, RadioFail, RadioDrop, Radio, bounds
  <2>2. RadioFlags'
    BY <1>6 DEF Flags, RadioFlags, RadioStep, RadioLink, RadioFail, RadioDrop, Radio
  <2>3. EndFlags'
    BY <1>6 DEF Flags, EndFlags, RadioStep, RadioLink, RadioFail, RadioDrop, Radio
  <2> QED
    BY <2>1, <2>2, <2>3 DEF Flags
<1> QED
  BY <1>1, <1>2, <1>3, <1>4, <1>5, <1>6

\* Every step keeps the flags.
LEMMA FlagTypes == ASSUME TypeOK, Next PROVE Flags'
<1>1. Flags
  BY DEF TypeOK, Flags, RadioFlags, ModeFlags, LinkFlags, EndFlags
<1>2. Connectors \subseteq Actors /\ Ensurers \subseteq Actors
      /\ {"retry", "post"} \subseteq Actors
  BY DEF Connectors, Ensurers, Actors
<1> QED
  BY <1>1, <1>2, ConnectFlags, EnsureFlags, TaskFlags, UserFlags
  DEF Next, EventStep, BootStep, RetryStep, PostStep, UiStep, Connectors, Ensurers

\* Every step keeps the queue a queue and the counters within their bounds.
LEMMA CountTypes ==
    ASSUME TypeOK, ~aborted => TasksOK, Next
    PROVE  /\ retryNum' \in 0..MaxRetry /\ events' \in Seq(Kinds)
           /\ cred' \in [Actors -> 1..(NCreds + 1)]
           /\ radioCount' \in 0..MaxRadio /\ uiCount' \in 0..MaxUi
<1>1. /\ retryNum \in 0..MaxRetry /\ events \in Seq(Kinds) /\ cred \in [Actors -> 1..(NCreds + 1)]
      /\ radioCount \in 0..MaxRadio /\ uiCount \in 0..MaxUi
      /\ MaxRetry \in Nat /\ NCreds \in Nat /\ MaxRadio \in Nat /\ MaxUi \in Nat
  BY WifiAssumption DEF TypeOK, Kinds
<1> USE DEF wifi, bounds
<1>2. Append(events, "disc") \in Seq(Kinds) /\ Append(events, "gotip") \in Seq(Kinds)
  BY <1>1 DEF Kinds
<1>3. ASSUME NEW a \in Connectors, ConnectStep(a)
      PROVE  /\ retryNum' \in 0..MaxRetry /\ events' \in Seq(Kinds)
             /\ cred' \in [Actors -> 1..(NCreds + 1)] /\ UNCHANGED bounds
  <2>1. CASE WaitFailed(a)
    <3>1. a \in Actors /\ UNCHANGED <<retryNum, events, bounds>>
      BY <2>1 DEF WaitFailed, Connectors, Actors
    <3>2. \/ cred[a] < NCreds /\ cred' = [cred EXCEPT ![a] = cred[a] + 1]
          \/ cred' = [cred EXCEPT ![a] = 1]
          \/ cred' = cred
      BY <2>1 DEF WaitFailed
    <3>3. cred[a] \in 1..(NCreds + 1) /\ 1 \in 1..(NCreds + 1)
      BY <1>1, <3>1
    <3>4. cred[a] < NCreds => cred[a] + 1 \in 1..(NCreds + 1)
      BY <1>1, <3>3
    <3>5. cred' \in [Actors -> 1..(NCreds + 1)]
      BY <1>1, <3>2, <3>3, <3>4
    <3> QED
      BY <1>1, <3>1, <3>5
  <2>2. CASE ~WaitFailed(a)
    BY <1>1, <1>2, <1>3, <2>2, SMTT(30) DEF ConnectStep, SetStaBegin, SetStaDisconnect,
       SetStaConnect,
       WaitConnected, DiscEvents
  <2> QED
    BY <2>1, <2>2
<1>4. CASE EventGotIp \/ EventDisconnected
  <2>1. events' = Tail(events) /\ events # <<>> /\ retryNum' \in {retryNum, 0}
        /\ UNCHANGED <<cred, bounds>>
    BY <1>4 DEF EventGotIp, EventDisconnected
  <2> QED
    BY <1>1, <2>1, QueueTail
<1>5. CASE EventReconnect
  <2>1. retryNum < MaxRetry
    BY <1>5 DEF EventReconnect, At, TasksOK
  <2>2. retryNum' = retryNum + 1 /\ UNCHANGED <<events, cred, bounds>>
    BY <1>5 DEF EventReconnect
  <2> QED
    BY <1>1, <2>1, <2>2
<1>6. CASE RadioStep
  <2>1. /\ events' \in {Append(events, "gotip"), Append(events, "disc")}
        /\ radioCount < MaxRadio /\ radioCount' = radioCount + 1
        /\ UNCHANGED <<retryNum, cred, uiCount>>
    BY <1>6 DEF RadioStep, RadioLink, RadioFail, RadioDrop, Radio
  <2> QED
    BY <1>1, <1>2, <2>1
<1>7. CASE UiConnect \/ UiOff \/ UiOn
  <2>1. /\ events' \in {events, Append(events, "disc")}
        /\ uiCount < MaxUi /\ uiCount' = uiCount + 1
        /\ UNCHANGED <<retryNum, cred, radioCount>>
    BY <1>7 DEF UiConnect, UiOff, UiOn, UiUse, DiscEvents
  <2> QED
    BY <1>1, <1>2, <2>1
<1>8. CASE Boot \/ NotifStart \/ RetryTop \/ RetryWake \/ RetryWon \/ RetryEnd \/ PostBegin
           \/ PostReady \/ PostEnd
  BY <1>1, <1>8 DEF Boot, NotifStart, RetryTop, RetryWake, RetryWon, RetryEnd, PostBegin,
     PostReady, PostEnd
<1>9. ASSUME NEW a \in Actors, EnsureStep(a) \/ EnableStep(a) \/ LeaveStep(a)
      PROVE  UNCHANGED <<retryNum, events, cred, radioCount, uiCount>>
  BY <1>9 DEF EnsureStep, EnsureClaim, EnsureClear, EnsureFailed, EnsureGiveUp, EnsureSpawn,
     EnableStep, PauseMqtt, BleEnable, BleInit, LeaveStep, BleDisable, ResumeMqtt
<1> QED
  BY <1>1, <1>3, <1>4, <1>5, <1>6, <1>7, <1>8, <1>9
  DEF Next, EventStep, BootStep, RetryStep, PostStep, UiStep, Connectors, Actors

\* The types are kept by every step.
LEMMA TypeStep == ASSUME TypeOK, ~aborted => TasksOK, Next PROVE TypeOK'
<1>1. Flags'
  BY FlagTypes
<1>2. pc' \in [Actors -> Lines]
  BY PcTypes
<1>3. /\ retryNum' \in 0..MaxRetry /\ events' \in Seq(Kinds)
      /\ cred' \in [Actors -> 1..(NCreds + 1)]
      /\ radioCount' \in 0..MaxRadio /\ uiCount' \in 0..MaxUi
  BY CountTypes
<1> QED
  BY <1>1, <1>2, <1>3
  DEF TypeOK, Flags, RadioFlags, ModeFlags, LinkFlags, EndFlags, Kinds

-----------------------------------------------------------------------------
(* The invariant holds.                                                    *)

\* The invariant holds at power on.
LEMMA Initially == Init => IInv
<1> SUFFICES ASSUME Init PROVE IInv
  OBVIOUS
<1>1. /\ pc["boot"] = "start" /\ pc["event"] = "idle" /\ pc["retry"] = "off" /\ pc["post"] = "off"
      /\ pc["ui"] = "off"
  BY DEF Init, Actors
<1>2. /\ pc \in [Actors -> Lines] /\ cred \in [Actors -> 1..(NCreds + 1)]
  <2>1. pc = [a \in Actors |-> pc[a]] /\ cred = [a \in Actors |-> 1]
    BY DEF Init
  <2>2. 1 \in 1..(NCreds + 1) /\ \A a \in Actors : pc[a] \in Lines
    BY <1>1, WifiAssumption DEF Actors, Lines
  <2> QED
    BY <2>1, <2>2
<1>3. events = <<>> /\ \A x : ~Has(events, x)
  BY DEF Init, Has
<1>4. TypeOK
  <2>1. Flags
    BY DEF Init, Flags, RadioFlags, ModeFlags, LinkFlags, EndFlags
  <2>2. retryNum \in 0..MaxRetry /\ radioCount \in 0..MaxRadio /\ uiCount \in 0..MaxUi
    BY WifiAssumption DEF Init
  <2>3. events \in Seq({"gotip", "disc"})
    BY <1>3
  <2> QED
    BY <1>2, <2>1, <2>2, <2>3
    DEF TypeOK, Flags, RadioFlags, ModeFlags, LinkFlags, EndFlags
<1>5. Base
  BY <1>1, <1>3 DEF Init, Base, TasksOK, LocksOK, BootOK, BitOK, Connectors, Some
<1>6. EventOK /\ Recovery
  BY <1>1, <1>3 DEF Init, EventOK, Recovery, LinkOK, QueueOK, RetryEndsOK, RetryStartsOK, IdleOK,
     FallbackOK, Acting, Quiet, Steady, Some, Ens, Blank
<1> QED
  BY <1>4, <1>5, <1>6 DEF IInv, Running

\* No step is made by a device that restarts.
LEMMA Alive == ASSUME Next PROVE ~aborted
<1> USE DEF At, NoStepReady, SecondsPass
<1>1. ASSUME NEW a, ConnectStep(a) PROVE ~aborted
  BY <1>1 DEF ConnectStep, SetStaBegin, SetStaDisconnect, SetStaConnect, WaitConnected,
     WaitFailed
<1>2. ASSUME NEW a, EnsureStep(a) PROVE ~aborted
  BY <1>2 DEF EnsureStep, EnsureClaim, EnsureClear, EnsureFailed, EnsureGiveUp, EnsureSpawn
<1>3. ASSUME NEW a, EnableStep(a) \/ LeaveStep(a) PROVE ~aborted
  BY <1>3 DEF EnableStep, LeaveStep, PauseMqtt, BleEnable, BleInit, BleDisable, ResumeMqtt
<1>4. CASE EventGotIp \/ EventDisconnected \/ EventReconnect \/ Boot \/ NotifStart
  BY <1>4 DEF EventGotIp, EventDisconnected, EventReconnect, Boot, NotifStart
<1>5. CASE RetryTop \/ RetryWake \/ RetryWon \/ RetryEnd \/ PostBegin \/ PostReady \/ PostEnd
  BY <1>5 DEF RetryTop, RetryWake, RetryWon, RetryEnd, PostBegin, PostReady, PostEnd
<1>6. CASE RadioStep \/ UiConnect \/ UiOff \/ UiOn
  BY <1>6 DEF RadioStep, RadioLink, RadioFail, RadioDrop, Radio, UiConnect, UiOff, UiOn, UiUse
<1> QED
  BY <1>1, <1>2, <1>3, <1>4, <1>5, <1>6
  DEF Next, EventStep, BootStep, RetryStep, PostStep, UiStep

\* Every step keeps what is true of a device that runs on.
LEMMA RunningStep == ASSUME TypeOK, Running, Next, ~aborted' PROVE Running'
<1>1. CASE EventStep
  BY <1>1, EventTaskOK, EnsureOK, EnableOK DEF EventStep, Ensurers
<1>2. CASE BootStep
  BY <1>2, UserOK, ConnectOK, EnsureOK, EnableOK DEF BootStep, Ensurers, Connectors
<1>3. CASE RetryStep
  BY <1>3, RetryTaskOK, ConnectOK, EnableOK DEF RetryStep, Connectors
<1>4. CASE PostStep
  BY <1>4, PostTaskOK DEF PostStep
<1>5. CASE UiStep
  BY <1>5, ConnectOK DEF UiStep, Connectors
<1>6. CASE RadioStep \/ UiConnect \/ UiOff \/ UiOn \/ NotifStart
  BY <1>6, RadioOK, UserOK
<1> QED
  BY <1>1, <1>2, <1>3, <1>4, <1>5, <1>6 DEF Next

\* A step that changes nothing keeps everything.
LEMMA Stuttering == ASSUME IInv, UNCHANGED vars PROVE IInv'
<1>1. /\ UNCHANGED <<configured, connBit, failBit, reconf, retryNum, opMutex, radio, events>>
      /\ UNCHANGED <<fallback, retryRun, postRun, manualOff, menu>>
      /\ UNCHANGED <<bleOn, lastErr, mqttSet, mqttOn>>
      /\ UNCHANGED <<radioCount, uiCount, excused>>
      /\ UNCHANGED <<aborted, pc, cred>>
  BY DEF vars, wifi, modes, links, bounds
<1>2. TypeOK' <=> TypeOK
  BY <1>1 DEF TypeOK
<1>3. (Base /\ EventOK)' <=> (Base /\ EventOK)
  BY <1>1 DEF Base, TasksOK, LocksOK, BootOK, BitOK, EventOK, Some
<1>4. Recovery' <=> Recovery
  BY <1>1 DEF Recovery, LinkOK, QueueOK, RetryEndsOK, RetryStartsOK, IdleOK, FallbackOK, Acting,
     Quiet, Steady, Some, Blank
<1> QED
  BY <1>1, <1>2, <1>3, <1>4 DEF IInv, Running

\* IInv is an inductive invariant.
LEMMA Invariance == Spec => []IInv
<1>1. IInv /\ [Next]_vars => IInv'
  <2> SUFFICES ASSUME IInv, [Next]_vars PROVE IInv'
    OBVIOUS
  <2>1. CASE UNCHANGED vars
    BY <2>1, Stuttering
  <2>2. CASE Next
    <3>1. ~aborted /\ Running /\ TypeOK /\ TasksOK
      BY <2>2, Alive DEF IInv, Running, Base
    <3>2. TypeOK'
      BY <2>2, <3>1, TypeStep
    <3>3. ~aborted' => Running'
      BY <2>2, <3>1, RunningStep
    <3> QED
      BY <3>2, <3>3 DEF IInv
  <2> QED
    BY <2>1, <2>2
<1> QED
  BY <1>1, Initially, PTL DEF Spec

\* Every variable always holds a value of its kind; among them the places of the
\* tasks, the number of reconnections, which never passes MAXIMUM_RETRY, and the
\* credential a task tries.
THEOREM TypeCorrect == Spec => []TypeOK
<1>1. IInv => TypeOK
  BY DEF IInv
<1> QED
  BY <1>1, Invariance, PTL

\* WIFI_CONNECTED_BIT agrees with the radio once the events are handled, for any
\* number of reconnections, of credentials and of uses of the screen.
THEOREM BitIsLink == Spec => []BitTracksLink
<1>1. IInv => BitTracksLink
  BY DEF IInv, Running, Base, BitOK, BootOK, BitTracksLink, Settled, Some
<1> QED
  BY <1>1, Invariance, PTL

\* A device that is offline, not switched off and with nothing in progress has a
\* retry task that will try again.
THEOREM RecoveryExists == Spec => []OfflineHasRecovery
<1>1. IInv => OfflineHasRecovery
  BY DEF IInv, Running, Recovery, IdleOK, FallbackOK, OfflineHasRecovery, Settled, Some, Ens,
     Blank
<1> QED
  BY <1>1, Invariance, PTL
=============================================================================
