--------------------------- MODULE Notifications ---------------------------
(***************************************************************************)
(* The outbox of trade notifications (src/app/notifications): the worker's *)
(* dispatcher turns committed fills into messages, claims one message per  *)
(* channel and hands it to a thread, while the dashboard saves a new       *)
(* configuration or sends a test, and either process may die at any point. *)
(*                                                                         *)
(* A transaction is one action.  outbox[c] holds the 'trade' rows of       *)
(* channel c in the order of their ids: every query on them selects by     *)
(* channel.  tests holds the 'test' rows.  What a message says, and        *)
(* whether fields are valid, is left out; where one message ends and the   *)
(* next begins depends on their length and is an input of Enqueue.         *)
(***************************************************************************)
EXTENDS Integers, Sequences

CONSTANTS
  Channels,    \* CHANNELS
  Batch,       \* the LIMIT of enqueue_committed
  MaxFills,    \* bound: committed fills
  MaxVersion,  \* bound: versions of the configuration
  MaxTests     \* bound: test messages

ASSUME BoundsAssumption ==
  Batch \in Nat \ {0} /\ MaxFills \in Nat /\ MaxVersion \in Nat /\ MaxTests \in Nat

VARIABLES
  pc,       \* the dispatcher: "idle", "collect", "claim", "closing", "last"
  todo,     \* channels its present loop has not come to yet
  fills,    \* the last committed fill
  cursor,   \* notification_cursor
  version,  \* notification_settings.version
  enabled,  \* the channels to notify; none when notifications are off
  outbox,   \* [Channels -> sequence of trade messages]
  task,     \* [Channels -> what the channel's future is doing]
  tests,    \* sequence of test messages and their requests
  base,     \* history: the fill at which this configuration began
  heard     \* history: the messages that have reached a channel

dispatcher == <<pc, todo>>
config == <<version, enabled, base>>
vars == <<dispatcher, fills, cursor, config, outbox, task, tests, heard>>

Answers == {"sent", "failed", "unknown"}
Final == Answers \cup {"cancelled"}
NoTask == [id |-> 0, stage |-> "none", answer |-> "none"]
Message(first, last) ==
  [first |-> first, last |-> last, version |-> version, status |-> "pending"]
Pending(c) == {i \in DOMAIN outbox[c] : outbox[c][i].status = "pending"}

Trade == [first : Nat, last : Nat, version : Nat, status : Final \cup {"pending", "sending"}]
Task == [id : Nat, stage : {"none", "queued", "ready", "done"},
         answer : Final \cup {"none"}]
Test == [status : Answers \cup {"sending"}, stage : {"none", "ready", "done"},
         answer : Answers \cup {"none"}]
Heard == [first : Nat, last : Nat]
TypeOK ==
  /\ pc \in {"idle", "collect", "claim", "closing", "last"} /\ todo \in SUBSET Channels
  /\ fills \in Nat /\ cursor \in Nat /\ version \in Nat /\ base \in Nat
  /\ enabled \in SUBSET Channels
  /\ outbox \in [Channels -> Seq(Trade)]
  /\ task \in [Channels -> Task]
  /\ tests \in Seq(Test)
  /\ heard \in [Channels -> Seq(Heard)]

Init ==
  /\ pc = "idle" /\ todo = {} /\ fills = 0 /\ cursor = 0
  /\ version = 1 /\ enabled = {} /\ base = 0
  /\ outbox = [c \in Channels |-> << >>] /\ task = [c \in Channels |-> NoTask]
  /\ tests = << >> /\ heard = [c \in Channels |-> << >>]

----------------------------------------------------------------------------
(* NotificationDispatcher.tick, after the worker's match has committed.    *)

CommitFill ==
  /\ pc = "idle" /\ fills < MaxFills /\ fills' = fills + 1
  /\ UNCHANGED <<dispatcher, cursor, config, outbox, task, tests, heard>>

StartTick ==
  /\ pc = "idle" /\ pc' = "collect"
  /\ todo' = {c \in Channels : task[c].stage # "none"}
  /\ UNCHANGED <<fills, cursor, config, outbox, task, tests, heard>>

(* finish: an answer counts only while the row is still 'sending'.         *)
Finish_Always(m, answer) == [m EXCEPT !.status = answer]
Finish(m, answer) == IF m.status = "sending" THEN [m EXCEPT !.status = answer] ELSE m

(* collect: the futures that are done give their answer and their place.   *)
Collect_NotAwaited(c) ==
  /\ pc \in {"collect", "last"} /\ c \in todo /\ todo' = todo \ {c}
  /\ pc' = IF pc = "last" /\ todo' = {} THEN "idle" ELSE pc
  /\ IF task[c].stage # "none"
     THEN /\ outbox' = [outbox EXCEPT ![c][task[c].id] = Finish(@, task[c].answer)]
          /\ task' = [task EXCEPT ![c] = NoTask]
     ELSE UNCHANGED <<outbox, task>>
  /\ UNCHANGED <<fills, cursor, config, tests, heard>>
Collect(c) ==
  /\ pc \in {"collect", "last"} /\ c \in todo /\ todo' = todo \ {c}
  /\ pc' = IF pc = "last" /\ todo' = {} THEN "idle" ELSE pc
  /\ IF task[c].stage = "done"
     THEN /\ outbox' = [outbox EXCEPT ![c][task[c].id] = Finish(@, task[c].answer)]
          /\ task' = [task EXCEPT ![c] = NoTask]
     ELSE UNCHANGED <<outbox, task>>
  /\ UNCHANGED <<fills, cursor, config, tests, heard>>

(* Rows that have been 'sending' for 120 seconds: which ones is an input.  *)
Sending == {row \in Channels \X (1 .. MaxFills) :
              /\ row[2] \in DOMAIN outbox[row[1]]
              /\ outbox[row[1]][row[2]].status = "sending"}
SendingTests == {t \in DOMAIN tests : tests[t].status = "sending"}
Expired_Ignored(late, c) == outbox[c]
Expired(late, c) ==
  [i \in DOMAIN outbox[c] |->
     IF <<c, i>> \in late THEN [outbox[c][i] EXCEPT !.status = "unknown"] ELSE outbox[c][i]]
ExpiredTests(late) ==
  [t \in DOMAIN tests |->
     IF t \in late THEN [tests[t] EXCEPT !.status = "unknown"] ELSE tests[t]]

(* enqueue_committed: the cursor and the new messages commit together.     *)
(* end[i] is the last fill of the i-th of n messages.                      *)
LastRead == IF cursor + Batch < fills THEN cursor + Batch ELSE fills
Splits(n) == {end \in [0 .. n -> cursor .. LastRead] :
                /\ end[0] = cursor /\ end[n] = LastRead
                /\ \A i, j \in 0 .. n : i < j => end[i] < end[j]}
NewMessages_Unflushed(n, end) == [i \in 1 .. n - 1 |-> Message(end[i - 1] + 1, end[i])]
NewMessages(n, end) == [i \in 1 .. n |-> Message(end[i - 1] + 1, end[i])]
Enqueue(late, lateTests) ==
  /\ pc = "collect" /\ todo = {} /\ pc' = "claim" /\ todo' = Channels
  /\ tests' = ExpiredTests(lateTests)
  /\ \/ /\ enabled = {} /\ cursor' = fills
        /\ outbox' = [c \in Channels |-> Expired(late, c)]
     \/ /\ enabled # {} /\ cursor = fills /\ UNCHANGED cursor
        /\ outbox' = [c \in Channels |-> Expired(late, c)]
     \/ /\ enabled # {} /\ cursor < fills /\ cursor' = LastRead
        /\ \E n \in 1 .. Batch : \E end \in Splits(n) :
             outbox' = [c \in Channels |->
               Expired(late, c) \o (IF c \in enabled THEN NewMessages(n, end) ELSE << >>)]
  /\ UNCHANGED <<fills, config, task, heard>>

(* The oldest pending message of a channel without a future is claimed and *)
(* submitted; deliver is its thread.                                       *)
Chosen(c) == {i \in Pending(c) : \A j \in Pending(c) : i <= j}
Claim(c) ==
  /\ pc = "claim" /\ c \in todo /\ todo' = todo \ {c}
  /\ pc' = IF todo' = {} THEN "idle" ELSE pc
  /\ \/ /\ task[c].stage # "none" \/ Pending(c) = {}
        /\ UNCHANGED <<outbox, task>>
     \/ /\ task[c].stage = "none"
        /\ \E i \in Chosen(c) :
             /\ outbox' = [outbox EXCEPT ![c][i].status = "sending"]
             /\ task' = [task EXCEPT ![c] = [id |-> i, stage |-> "queued", answer |-> "none"]]
  /\ UNCHANGED <<fills, cursor, config, tests, heard>>

(* An exception leaves the tick; the worker logs it and goes on.           *)
Abort ==
  /\ pc \in {"collect", "claim"} /\ pc' = "idle" /\ todo' = {}
  /\ UNCHANGED <<fills, cursor, config, outbox, task, tests, heard>>

(* close: the pool finishes what was claimed, then collect runs once more. *)
(* "idle" after that is the next process.                                  *)
Close ==
  /\ pc = "idle" /\ pc' = "closing"
  /\ UNCHANGED <<todo, fills, cursor, config, outbox, task, tests, heard>>
Drained ==
  /\ pc = "closing" /\ \A c \in Channels : task[c].stage \in {"none", "done"}
  /\ pc' = "last" /\ todo' = Channels
  /\ UNCHANGED <<fills, cursor, config, outbox, task, tests, heard>>

(* The worker dies and starts again: its futures are gone, rows stay.      *)
Crash_Requeued ==
  /\ pc' = "idle" /\ todo' = {} /\ task' = [c \in Channels |-> NoTask]
  /\ outbox' = [c \in Channels |-> [i \in DOMAIN outbox[c] |->
       IF outbox[c][i].status = "sending" THEN [outbox[c][i] EXCEPT !.status = "pending"]
       ELSE outbox[c][i]]]
  /\ UNCHANGED <<fills, cursor, config, tests, heard>>
Crash ==
  /\ pc' = "idle" /\ todo' = {} /\ task' = [c \in Channels |-> NoTask]
  /\ UNCHANGED <<fills, cursor, config, outbox, tests, heard>>

----------------------------------------------------------------------------
(* deliver, in the channel's thread.                                       *)

Answered(c, answer) == [task EXCEPT ![c].stage = "done", ![c].answer = answer]

(* The configuration is read once more, on a connection that may fail.     *)
ReadConfig(c) ==
  /\ task[c].stage = "queued"
  /\ LET stale == outbox[c][task[c].id].version # version \/ c \notin enabled
     IN \/ stale /\ task' = Answered(c, "cancelled")
        \/ ~stale /\ task' = [task EXCEPT ![c].stage = "ready"]
        \/ task' = Answered(c, "failed")
  /\ UNCHANGED <<dispatcher, fills, cursor, config, outbox, tests, heard>>

(* outcome(send): one request.  Only an accepted one is known to have      *)
(* reached the channel; one refused or without an answer may have.         *)
Post(c) ==
  /\ task[c].stage = "ready"
  /\ \E answer \in Answers, reached \in BOOLEAN :
       /\ answer = "sent" => reached
       /\ task' = Answered(c, answer)
       /\ heard' = IF ~reached THEN heard
                   ELSE LET m == outbox[c][task[c].id]
                        IN [heard EXCEPT ![c] = Append(@, [first |-> m.first, last |-> m.last])]
  /\ UNCHANGED <<dispatcher, fills, cursor, config, outbox, tests>>

----------------------------------------------------------------------------
(* The dashboard.                                                          *)

(* save_config, from a page that holds the current version.                *)
Withdrawn_SendingToo(m) ==
  IF m.status \in {"pending", "sending"} THEN [m EXCEPT !.status = "cancelled"] ELSE m
Withdrawn_Kept(m) == m
Withdrawn(m) == IF m.status = "pending" THEN [m EXCEPT !.status = "cancelled"] ELSE m
SaveConfig ==
  /\ version < MaxVersion /\ version' = version + 1
  /\ enabled' \in SUBSET Channels
  /\ cursor' = fills /\ base' = fills
  /\ outbox' = [c \in Channels |-> [i \in DOMAIN outbox[c] |-> Withdrawn(outbox[c][i])]]
  /\ UNCHANGED <<dispatcher, fills, task, tests, heard>>

(* test_channel: the row, the request and its outcome, in a request of its *)
(* own.  The dashboard may die before the outcome is written.              *)
StartTest ==
  /\ Len(tests) < MaxTests
  /\ tests' = Append(tests, [status |-> "sending", stage |-> "ready", answer |-> "none"])
  /\ UNCHANGED <<dispatcher, fills, cursor, config, outbox, task, heard>>
AnswerTest(t) ==
  /\ tests[t].stage = "ready"
  /\ \E answer \in Answers :
       tests' = [tests EXCEPT ![t].stage = "done", ![t].answer = answer]
  /\ UNCHANGED <<dispatcher, fills, cursor, config, outbox, task, heard>>
FinishTest(t) ==
  /\ tests[t].stage = "done"
  /\ tests' = [tests EXCEPT ![t] = [Finish(@, @.answer) EXCEPT !.stage = "none"]]
  /\ UNCHANGED <<dispatcher, fills, cursor, config, outbox, task, heard>>
CrashDashboard ==
  /\ tests' = [t \in DOMAIN tests |-> [tests[t] EXCEPT !.stage = "none"]]
  /\ UNCHANGED <<dispatcher, fills, cursor, config, outbox, task, heard>>

Tick ==
  \/ StartTick
  \/ \E c \in Channels : Collect(c) \/ Claim(c)
  \/ \E late \in SUBSET Sending, lateTests \in SUBSET SendingTests : Enqueue(late, lateTests)
Worker == Tick \/ Abort \/ Close \/ Drained \/ Crash
Deliver(c) == ReadConfig(c) \/ Post(c)
Dashboard ==
  \/ SaveConfig \/ StartTest \/ CrashDashboard
  \/ \E t \in DOMAIN tests : AnswerTest(t) \/ FinishTest(t)
Next == CommitFill \/ Worker \/ (\E c \in Channels : Deliver(c)) \/ Dashboard
Spec == Init /\ [][Next]_vars

(* A thread ends: the request has a timeout.  A worker that dies or fails  *)
(* comes back, and does not for ever fail, or stop, at the same step.      *)
(* 120 seconds pass in the end for a row that stays 'sending'.             *)
FairSpec ==
  /\ Spec
  /\ SF_vars(StartTick) /\ WF_vars(Drained)
  /\ SF_vars(\E late \in SUBSET Sending : Enqueue(late, SendingTests) /\ late = Sending)
  /\ \A c \in Channels : WF_vars(Deliver(c)) /\ SF_vars(Collect(c)) /\ SF_vars(Claim(c))

----------------------------------------------------------------------------
(* Properties.                                                             *)

(* A channel hears of every fill at most once and in the order of fills,   *)
(* over restarts, late answers, batches and changes of the configuration:  *)
(* the outbox implements what docs/notifications.md promises.              *)
Promise == INSTANCE NotificationPromise
KeepsPromise == Promise!Spec

(* While a channel is enabled, every fill since the configuration began    *)
(* that the cursor has passed is in a message of that channel.             *)
NothingSkipped ==
  \A c \in enabled : \A f \in base + 1 .. cursor : \E i \in DOMAIN outbox[c] :
    LET m == outbox[c][i] IN m.version = version /\ m.first <= f /\ f <= m.last

(* What history shows of a message is true: 'sent' has reached the         *)
(* channel; 'pending' and 'cancelled' have not.                            *)
HistoryIsTrue ==
  \A c \in Channels : \A i \in DOMAIN outbox[c] :
    LET reached == \E k \in DOMAIN heard[c] : heard[c][k].first = outbox[c][i].first
    IN /\ outbox[c][i].status = "sent" => reached
       /\ outbox[c][i].status \in {"pending", "cancelled"} => ~reached

(* A message waiting to be sent belongs to the configuration in force: to  *)
(* its version, a channel it enables, and fills after it began.            *)
PendingIsCurrent ==
  \A c \in Channels : \A i \in Pending(c) :
    outbox[c][i].version = version /\ c \in enabled /\ outbox[c][i].first > base

(* The outcome shown is final: a late answer never rewrites it.            *)
OutcomeIsFinal ==
  [][/\ \A c \in Channels : \A i \in DOMAIN outbox[c] :
          outbox[c][i].status \in Final => outbox'[c][i] = outbox[c][i]
     /\ \A t \in DOMAIN tests :
          tests[t].status \in Final => tests'[t].status = tests[t].status]_vars

(* Every message gets an outcome, and every test does, also when the       *)
(* process that claimed it has died.                                       *)
MessagesEnd ==
  /\ \A c \in Channels, i \in 1 .. MaxFills :
       i \in DOMAIN outbox[c] ~> i \in DOMAIN outbox[c] /\ outbox[c][i].status \in Final
  /\ \A t \in 1 .. MaxTests :
       t \in DOMAIN tests ~> t \in DOMAIN tests /\ tests[t].status \in Final
=============================================================================
