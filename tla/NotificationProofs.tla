------------------------- MODULE NotificationProofs -------------------------
(***************************************************************************)
(* Proofs about Notifications, for any set of channels and all bounds.     *)
(*                                                                         *)
(* A step concerns each channel by itself: its rows, its task, what it has *)
(* heard and the cursor.  Local says what always holds of these four; one  *)
(* lemma about values says that each kind of step keeps it, and the steps  *)
(* of the specification are then shown to be of these kinds.               *)
(***************************************************************************)
EXTENDS Notifications, SequenceTheorems, WellFoundedInduction, TLAPS

Reached(box, h, i) == \E k \in DOMAIN h : h[k].first = box[i].first

(* The messages of a channel are about later and later fills.              *)
Ordered(box, upto) ==
  /\ \A i \in DOMAIN box :
       1 <= box[i].first /\ box[i].first <= box[i].last /\ box[i].last <= upto
  /\ \A i, j \in DOMAIN box : i < j => box[i].last < box[j].first
(* Pending messages come after all that have been claimed or withdrawn.    *)
PendingLast(box) ==
  \A i, j \in DOMAIN box :
    box[i].status = "pending" /\ box[j].status # "pending" => j < i
(* The row of a task is claimed and has no outcome but a late one.         *)
TaskRow(box, t) ==
  /\ t.stage # "none" => t.id \in DOMAIN box /\ box[t.id].status \in {"sending", "unknown"}
  /\ t.stage = "done" => t.answer \in Final
(* What a channel has heard is some claimed message.                       *)
HeardClaimed(box, h) ==
  \A k \in DOMAIN h : \E j \in DOMAIN box :
    box[j].status # "pending" /\ box[j].first = h[k].first /\ box[j].last = h[k].last
(* A task that has not posted yet is about later fills than all heard.     *)
HeardBefore(box, t, h) ==
  t.stage \in {"queued", "ready"} => \A k \in DOMAIN h : h[k].last < box[t.id].first
(* The answer of a task, and the status of a row, tell what was heard.     *)
AnswerTrue(box, t, h) ==
  /\ t.stage = "done" /\ t.answer = "sent" => Reached(box, h, t.id)
  /\ t.stage = "done" /\ t.answer = "cancelled" => ~Reached(box, h, t.id)
StatusTrue(box, h) ==
  \A i \in DOMAIN box :
    /\ box[i].status = "sent" => Reached(box, h, i)
    /\ box[i].status \in {"pending", "cancelled"} => ~Reached(box, h, i)

Local(box, t, h, upto) ==
  /\ Ordered(box, upto) /\ PendingLast(box) /\ TaskRow(box, t)
  /\ HeardClaimed(box, h) /\ HeardBefore(box, t, h)
  /\ AnswerTrue(box, t, h) /\ StatusTrue(box, h)

(* Two boxes have the same messages, whatever their status.                *)
SameMessages(box, new) ==
  /\ DOMAIN new = DOMAIN box
  /\ \A i \in DOMAIN box : /\ new[i].first = box[i].first /\ new[i].last = box[i].last
                           /\ new[i].version = box[i].version

----------------------------------------------------------------------------
(* One lemma for each kind of step of a channel.                           *)

LEMMA RowType ==
  ASSUME NEW box \in Seq(Trade), NEW i \in DOMAIN box
  PROVE  /\ box[i] \in Trade /\ i \in Nat
         /\ box[i].first \in Nat /\ box[i].last \in Nat /\ box[i].version \in Nat
<1>1. DOMAIN box = 1 .. Len(box) /\ Len(box) \in Nat
  BY LenProperties
<1>2. box[i] \in Trade
  BY <1>1, ElementOfSeq
<1> QED
  BY <1>1, <1>2 DEF Trade

(* collect: the task's answer is written to a row still 'sending'.         *)
LEMMA AnswerKeeps ==
  ASSUME NEW box \in Seq(Trade), NEW new \in Seq(Trade), NEW t \in Task,
         NEW h \in Seq(Heard), NEW upto \in Nat,
         Local(box, t, h, upto), SameMessages(box, new), t.stage = "done",
         \A i \in DOMAIN box :
           new[i].status = IF i = t.id /\ box[i].status = "sending"
                           THEN t.answer ELSE box[i].status
  PROVE  Local(new, NoTask, h, upto)
<1>1. Ordered(new, upto)
  BY DEF Local, Ordered, SameMessages
<1>2. t.id \in DOMAIN box /\ box[t.id].status \in {"sending", "unknown"} /\ t.answer \in Final
  BY DEF Local, TaskRow
<1>3. \A i \in DOMAIN box : new[i].status = "pending" <=> box[i].status = "pending"
  BY <1>2 DEF Final, Answers
<1>4. PendingLast(new)
  BY <1>3 DEF Local, PendingLast, SameMessages
<1>5. TaskRow(new, NoTask) /\ HeardBefore(new, NoTask, h) /\ AnswerTrue(new, NoTask, h)
  BY DEF TaskRow, HeardBefore, AnswerTrue, NoTask
<1>6. HeardClaimed(new, h)
  BY <1>3 DEF Local, HeardClaimed, SameMessages
<1>7. StatusTrue(new, h)
  BY <1>2 DEF Local, StatusTrue, AnswerTrue, Reached, SameMessages, Final, Answers
<1> QED
  BY <1>1, <1>4, <1>5, <1>6, <1>7 DEF Local

(* The first half of tick: rows 'sending' for too long become 'unknown'.   *)
LEMMA ExpireKeeps ==
  ASSUME NEW box \in Seq(Trade), NEW new \in Seq(Trade), NEW t \in Task,
         NEW h \in Seq(Heard), NEW upto \in Nat,
         Local(box, t, h, upto), SameMessages(box, new),
         \A i \in DOMAIN box :
           \/ new[i].status = box[i].status
           \/ box[i].status = "sending" /\ new[i].status = "unknown"
  PROVE  Local(new, t, h, upto)
<1>1. Ordered(new, upto)
  BY DEF Local, Ordered, SameMessages
<1>3. \A i \in DOMAIN box : new[i].status = "pending" <=> box[i].status = "pending"
  OBVIOUS
<1>4. PendingLast(new)
  BY <1>3 DEF Local, PendingLast, SameMessages
<1>5. TaskRow(new, t)
  BY DEF Local, TaskRow, SameMessages
<1>6. HeardClaimed(new, h)
  BY <1>3 DEF Local, HeardClaimed, SameMessages
<1>7. HeardBefore(new, t, h) /\ AnswerTrue(new, t, h)
  BY DEF Local, HeardBefore, AnswerTrue, TaskRow, SameMessages, Reached
<1>8. StatusTrue(new, h)
  BY DEF Local, StatusTrue, SameMessages, Reached
<1> QED
  BY <1>1, <1>4, <1>5, <1>6, <1>7, <1>8 DEF Local

(* enqueue_committed: pending messages about fills after the cursor.       *)
LEMMA AppendKeeps ==
  ASSUME NEW box \in Seq(Trade), NEW more \in Seq(Trade), NEW t \in Task,
         NEW h \in Seq(Heard), NEW upto \in Nat, NEW next \in Nat,
         Local(box, t, h, upto), upto <= next, Ordered(more, next),
         \A i \in DOMAIN more : more[i].status = "pending" /\ upto < more[i].first
  PROVE  Local(box \o more, t, h, next)
<1> DEFINE new == box \o more
<1>1. /\ new \in Seq(Trade) /\ Len(new) = Len(box) + Len(more)
      /\ \A i \in 1 .. Len(box) + Len(more) :
           new[i] = IF i <= Len(box) THEN box[i] ELSE more[i - Len(box)]
  BY ConcatProperties
<1>2. DOMAIN box = 1 .. Len(box) /\ DOMAIN more = 1 .. Len(more) /\ DOMAIN new = 1 .. Len(new)
      /\ Len(box) \in Nat /\ Len(more) \in Nat
  BY <1>1, LenProperties
<1> HIDE DEF new
<1>3. \A i \in DOMAIN box : i \in DOMAIN new /\ new[i] = box[i]
  BY <1>1, <1>2
<1>4. \A i \in DOMAIN new : i \notin DOMAIN box =>
        /\ i > Len(box) /\ i - Len(box) \in DOMAIN more /\ new[i] = more[i - Len(box)]
        /\ new[i].status = "pending" /\ upto < new[i].first
  BY <1>1, <1>2
<1>5. \A i \in DOMAIN new : new[i].first \in Nat /\ new[i].last \in Nat
  BY <1>1, RowType
<1>6. Ordered(new, next)
  <2>1. \A i \in DOMAIN new :
          1 <= new[i].first /\ new[i].first <= new[i].last /\ new[i].last <= next
    BY <1>3, <1>4, <1>5 DEF Local, Ordered
  <2>2. ASSUME NEW i \in DOMAIN new, NEW j \in DOMAIN new, i < j
        PROVE  new[i].last < new[j].first
    <3>1. CASE j \in DOMAIN box
      BY <1>2, <1>3, <2>2, <3>1 DEF Local, Ordered
    <3>2. CASE i \in DOMAIN box /\ j \notin DOMAIN box
      BY <1>3, <1>4, <1>5, <3>2 DEF Local, Ordered
    <3>3. CASE i \notin DOMAIN box /\ j \notin DOMAIN box
      <4>1. i - Len(box) < j - Len(box)
        BY <1>2, <2>2
      <4> QED
        BY <1>4, <3>3, <4>1 DEF Ordered
    <3> QED
      BY <3>1, <3>2, <3>3
  <2> QED
    BY <2>1, <2>2 DEF Ordered
<1>7. PendingLast(new)
  BY <1>1, <1>2, <1>3, <1>4 DEF Local, PendingLast
<1>8. TaskRow(new, t) /\ HeardBefore(new, t, h) /\ AnswerTrue(new, t, h)
  BY <1>3 DEF Local, TaskRow, HeardBefore, AnswerTrue, Reached
<1>9. HeardClaimed(new, h)
  <2> SUFFICES ASSUME NEW k \in DOMAIN h
               PROVE  \E j \in DOMAIN new : /\ new[j].status # "pending"
                                            /\ new[j].first = h[k].first /\ new[j].last = h[k].last
    BY DEF HeardClaimed
  <2>1. PICK j \in DOMAIN box : box[j].status # "pending" /\ box[j].first = h[k].first /\ box[j].last = h[k].last
    BY DEF Local, HeardClaimed
  <2> QED
    BY <1>3, <2>1
<1>10. StatusTrue(new, h)
  <2>1. ASSUME NEW i \in DOMAIN new, i \notin DOMAIN box
        PROVE  ~Reached(new, h, i)
    <3>1. ASSUME NEW k \in DOMAIN h
          PROVE  h[k].first <= upto
      <4>1. PICK j \in DOMAIN box : box[j].first = h[k].first
        BY DEF Local, HeardClaimed
      <4>2. box[j].first <= box[j].last /\ box[j].last <= upto
        BY DEF Local, Ordered
      <4>3. box[j].first \in Nat /\ box[j].last \in Nat
        BY RowType
      <4> QED
        BY <4>1, <4>2, <4>3
    <3> QED
      BY <1>4, <1>5, <2>1, <3>1 DEF Reached
  <2> QED
    BY <1>3, <1>4, <2>1 DEF Local, StatusTrue, Reached
<1> QED
  BY <1>6, <1>7, <1>8, <1>9, <1>10 DEF Local, new

(* tick: the oldest pending message is claimed for a new task.             *)
LEMMA ClaimKeeps ==
  ASSUME NEW box \in Seq(Trade), NEW new \in Seq(Trade), NEW t \in Task,
         NEW h \in Seq(Heard), NEW upto \in Nat, NEW i \in DOMAIN box,
         Local(box, t, h, upto), SameMessages(box, new),
         box[i].status = "pending", \A j \in DOMAIN box : box[j].status = "pending" => i <= j,
         \A j \in DOMAIN box : new[j].status = IF j = i THEN "sending" ELSE box[j].status
  PROVE  Local(new, [id |-> i, stage |-> "queued", answer |-> "none"], h, upto)
<1> DEFINE now == [id |-> i, stage |-> "queued", answer |-> "none"]
<1>1. Ordered(new, upto)
  BY DEF Local, Ordered, SameMessages
<1>2. PendingLast(new)
  <2>1. \A j \in DOMAIN box : j \in Nat
    BY RowType
  <2> QED
    BY <2>1 DEF Local, PendingLast, SameMessages
<1>3. TaskRow(new, now) /\ AnswerTrue(new, now, h)
  BY DEF TaskRow, AnswerTrue, SameMessages
<1>4. HeardClaimed(new, h)
  BY DEF Local, HeardClaimed, SameMessages
<1>5. HeardBefore(new, now, h)
  <2>1. ASSUME NEW k \in DOMAIN h
        PROVE  h[k].last < box[i].first
    BY DEF Local, HeardClaimed, PendingLast, Ordered
  <2> QED
    BY <2>1 DEF HeardBefore, SameMessages
<1>6. StatusTrue(new, h)
  BY DEF Local, StatusTrue, SameMessages, Reached
<1> QED
  BY <1>1, <1>2, <1>3, <1>4, <1>5, <1>6 DEF Local

(* deliver: the task goes on, or has an answer without having posted.      *)
LEMMA ReadKeeps ==
  ASSUME NEW box \in Seq(Trade), NEW t \in Task, NEW now \in Task,
         NEW h \in Seq(Heard), NEW upto \in Nat,
         Local(box, t, h, upto), t.stage = "queued", now.id = t.id,
         \/ now.stage = "ready"
         \/ now.stage = "done" /\ now.answer \in {"cancelled", "failed"}
  PROVE  Local(box, now, h, upto)
<1>1. TaskRow(box, now)
  BY DEF Local, TaskRow, Final, Answers
<1>2. HeardBefore(box, now, h)
  BY DEF Local, HeardBefore
<1>3. AnswerTrue(box, now, h)
  <2>1. t.id \in DOMAIN box
    BY DEF Local, TaskRow
  <2>2. box[t.id].first \in Nat
    BY <2>1, RowType
  <2>3. ASSUME NEW k \in DOMAIN h
        PROVE  h[k].first # box[t.id].first
    <3>1. h[k].last < box[t.id].first
      BY DEF Local, HeardBefore
    <3>2. PICK j \in DOMAIN box : box[j].first = h[k].first /\ box[j].last = h[k].last
      BY DEF Local, HeardClaimed
    <3>3. box[j].first <= box[j].last /\ box[j].first \in Nat /\ box[j].last \in Nat
      BY RowType DEF Local, Ordered
    <3> QED
      BY <2>2, <3>1, <3>2, <3>3
  <2> QED
    BY <2>3 DEF AnswerTrue, Reached
<1> QED
  BY <1>1, <1>2, <1>3 DEF Local

(* deliver: the request, which may or may not reach the channel.           *)
LEMMA PostKeeps ==
  ASSUME NEW box \in Seq(Trade), NEW t \in Task, NEW now \in Task,
         NEW h \in Seq(Heard), NEW more \in Seq(Heard), NEW upto \in Nat,
         Local(box, t, h, upto), t.stage = "ready", now.id = t.id, now.stage = "done",
         now.answer \in Answers,
         \/ more = h /\ now.answer # "sent"
         \/ more = Append(h, [first |-> box[t.id].first, last |-> box[t.id].last])
  PROVE  Local(box, now, more, upto)
<1>1. TaskRow(box, now) /\ HeardBefore(box, now, more)
  BY DEF Local, TaskRow, HeardBefore, Final
<1>2. CASE more = h /\ now.answer # "sent"
  <2>1. AnswerTrue(box, now, more)
    BY <1>2 DEF AnswerTrue, Answers
  <2> QED
    BY <1>1, <1>2, <2>1 DEF Local
<1>3. CASE more = Append(h, [first |-> box[t.id].first, last |-> box[t.id].last])
  <2> DEFINE m == [first |-> box[t.id].first, last |-> box[t.id].last]
  <2>1. t.id \in DOMAIN box /\ box[t.id].status \in {"sending", "unknown"}
    BY DEF Local, TaskRow
  <2>2. /\ DOMAIN h = 1 .. Len(h) /\ Len(h) \in Nat /\ DOMAIN more = 1 .. Len(h) + 1
        /\ more[Len(h) + 1] = m /\ \A k \in DOMAIN h : more[k] = h[k]
    BY <1>3, LenProperties
  <2>3. \A k \in DOMAIN more : k \in DOMAIN h \/ more[k] = m
    BY <2>2
  <2>4. \A i \in DOMAIN box : Reached(box, h, i) => Reached(box, more, i)
    BY <2>2 DEF Reached
  <2>5. AnswerTrue(box, now, more)
    BY <2>2 DEF AnswerTrue, Answers, Reached
  <2>6. HeardClaimed(box, more)
    BY <2>1, <2>2, <2>3 DEF Local, HeardClaimed
  <2>7. ASSUME NEW i \in DOMAIN box, i # t.id
        PROVE  box[i].first # box[t.id].first
    <3>1. i \in Nat /\ t.id \in Nat /\ box[i].first \in Nat /\ box[t.id].first \in Nat
          /\ box[i].last \in Nat /\ box[t.id].last \in Nat
      BY <2>1, RowType
    <3>2. CASE i < t.id
      BY <2>1, <3>1, <3>2 DEF Local, Ordered
    <3>3. CASE t.id < i
      BY <2>1, <3>1, <3>3 DEF Local, Ordered
    <3> QED
      BY <2>7, <3>1, <3>2, <3>3
  <2>8. StatusTrue(box, more)
    BY <2>1, <2>2, <2>3, <2>4, <2>7 DEF Local, StatusTrue, Reached
  <2> QED
    BY <1>1, <2>5, <2>6, <2>8 DEF Local
<1> QED
  BY <1>2, <1>3

(* save_config: every pending message is cancelled.                        *)
LEMMA WithdrawKeeps ==
  ASSUME NEW box \in Seq(Trade), NEW new \in Seq(Trade), NEW t \in Task,
         NEW h \in Seq(Heard), NEW upto \in Nat, NEW next \in Nat,
         Local(box, t, h, upto), SameMessages(box, new), upto <= next,
         \A i \in DOMAIN box :
           new[i].status = IF box[i].status = "pending" THEN "cancelled" ELSE box[i].status
  PROVE  Local(new, t, h, next)
<1>1. \A i \in DOMAIN box : box[i].first \in Nat /\ box[i].last \in Nat
  BY RowType
<1>2. Ordered(new, next)
  BY <1>1 DEF Local, Ordered, SameMessages
<1>3. PendingLast(new)
  BY DEF PendingLast, SameMessages
<1>4. TaskRow(new, t)
  BY DEF Local, TaskRow, SameMessages
<1>5. HeardClaimed(new, h)
  BY DEF Local, HeardClaimed, SameMessages
<1>6. HeardBefore(new, t, h) /\ AnswerTrue(new, t, h)
  BY DEF Local, HeardBefore, AnswerTrue, TaskRow, SameMessages, Reached
<1>7. StatusTrue(new, h)
  BY DEF Local, StatusTrue, SameMessages, Reached
<1> QED
  BY <1>2, <1>3, <1>4, <1>5, <1>6, <1>7 DEF Local

(* A crash: the task is gone.                                              *)
LEMMA CrashKeeps ==
  ASSUME NEW box, NEW t, NEW h, NEW upto, Local(box, t, h, upto)
  PROVE  Local(box, NoTask, h, upto)
BY DEF Local, TaskRow, HeardBefore, AnswerTrue, NoTask

----------------------------------------------------------------------------
(* The inductive invariant.                                                *)

IInv ==
  /\ TypeOK
  /\ base <= cursor /\ cursor <= fills
  /\ \A c \in Channels : Local(outbox[c], task[c], heard[c], cursor)
  /\ \A t \in DOMAIN tests : tests[t].stage = "done" => tests[t].answer \in Answers

LEMMA InitInv == Init => IInv
<1> SUFFICES ASSUME Init
             PROVE  IInv
  OBVIOUS
<1>1. TypeOK
  <2>1. << >> \in Seq(Trade) /\ << >> \in Seq(Heard) /\ << >> \in Seq(Test)
    OBVIOUS
  <2>2. NoTask \in Task
    BY DEF NoTask, Task
  <2> QED
    BY <2>1, <2>2 DEF Init, TypeOK
<1>2. ASSUME NEW c \in Channels
      PROVE  Local(outbox[c], task[c], heard[c], cursor)
  BY DEF Init, Local, Ordered, PendingLast, TaskRow, HeardClaimed, HeardBefore, AnswerTrue,
         StatusTrue, NoTask
<1> QED
  BY <1>1, <1>2 DEF IInv, Init

(* Writing one row of one channel.                                         *)
LEMMA OneRow ==
  ASSUME NEW box \in [Channels -> Seq(Trade)], NEW c \in Channels,
         NEW i \in DOMAIN box[c], NEW m \in Trade
  PROVE  LET new == [box EXCEPT ![c][i] = m]
         IN /\ new \in [Channels -> Seq(Trade)]
            /\ DOMAIN new[c] = DOMAIN box[c]
            /\ \A j \in DOMAIN box[c] : new[c][j] = IF j = i THEN m ELSE box[c][j]
            /\ \A d \in Channels \ {c} : new[d] = box[d]
<1> DEFINE row == [box[c] EXCEPT ![i] = m]
           new == [box EXCEPT ![c] = row]
<1>1. DOMAIN box[c] = 1 .. Len(box[c])
  BY LenProperties
<1>2. row \in Seq(Trade) /\ Len(row) = Len(box[c])
      /\ \A j \in 1 .. Len(box[c]) : row[j] = IF j = i THEN m ELSE box[c][j]
  BY <1>1, ExceptSeq
<1>3. DOMAIN row = DOMAIN box[c]
  OBVIOUS
<1> HIDE DEF row
<1>4. new \in [Channels -> Seq(Trade)] /\ new[c] = row
      /\ \A d \in Channels \ {c} : new[d] = box[d]
  BY <1>2
<1>5. new = [box EXCEPT ![c][i] = m]
  BY DEF row
<1> QED
  BY <1>1, <1>2, <1>3, <1>4, <1>5

(* Writing every row of every channel.                                     *)
LEMMA EveryRow ==
  ASSUME NEW box \in [Channels -> Seq(Trade)], NEW new, DOMAIN new = Channels,
         new = [c \in Channels |-> new[c]],
         \A c \in Channels : /\ new[c] = [i \in DOMAIN box[c] |-> new[c][i]]
                              /\ \A i \in DOMAIN box[c] : new[c][i] \in Trade
  PROVE  new \in [Channels -> Seq(Trade)]
<1>1. ASSUME NEW c \in Channels
      PROVE  new[c] \in Seq(Trade)
  <2>1. DOMAIN box[c] = 1 .. Len(box[c]) /\ Len(box[c]) \in Nat
    BY LenProperties
  <2> QED
    BY <2>1, SeqDef
<1> QED
  BY <1>1

----------------------------------------------------------------------------
(* Every action keeps it.                                                  *)

(* Steps that leave the rows, tasks, cursor and heard messages alone.      *)
LEMMA QuietKeeps ==
  ASSUME IInv, TypeOK', UNCHANGED <<cursor, config, outbox, task, heard>>, fills <= fills',
         \A t \in DOMAIN tests' : tests'[t].stage = "done" => tests'[t].answer \in Answers
  PROVE  IInv'
BY DEF IInv, config, TypeOK

LEMMA CommitFillInv == ASSUME IInv, CommitFill PROVE IInv'
<1>1. TypeOK' /\ fills <= fills'
  BY DEF IInv, TypeOK, CommitFill, dispatcher, config
<1> QED
  BY <1>1, QuietKeeps DEF CommitFill, IInv

LEMMA StartTickInv == ASSUME IInv, StartTick PROVE IInv'
<1>1. TypeOK' /\ fills <= fills'
  BY DEF IInv, TypeOK, StartTick, config
<1> QED
  BY <1>1, QuietKeeps DEF StartTick, IInv

LEMMA AbortInv == ASSUME IInv, Abort PROVE IInv'
<1>1. TypeOK' /\ fills <= fills'
  BY DEF IInv, TypeOK, Abort, config
<1> QED
  BY <1>1, QuietKeeps DEF Abort, IInv

LEMMA CloseInv == ASSUME IInv, Close PROVE IInv'
<1>1. TypeOK' /\ fills <= fills'
  BY DEF IInv, TypeOK, Close, config
<1> QED
  BY <1>1, QuietKeeps DEF Close, IInv

LEMMA DrainedInv == ASSUME IInv, Drained PROVE IInv'
<1>1. TypeOK' /\ fills <= fills'
  BY DEF IInv, TypeOK, Drained, config
<1> QED
  BY <1>1, QuietKeeps DEF Drained, IInv

LEMMA TestType ==
  ASSUME TypeOK, NEW t \in DOMAIN tests
  PROVE  tests[t] \in Test
BY LenProperties, ElementOfSeq DEF TypeOK

LEMMA StartTestInv == ASSUME IInv, StartTest PROVE IInv'
<1>1. TypeOK' /\ fills <= fills'
  BY DEF IInv, TypeOK, StartTest, config, dispatcher, Test
<1>2. \A t \in DOMAIN tests' : tests'[t].stage = "done" => tests'[t].answer \in Answers
  BY LenProperties DEF IInv, StartTest, TypeOK
<1> QED
  BY <1>1, <1>2, QuietKeeps DEF StartTest

LEMMA AnswerTestInv ==
  ASSUME IInv, NEW t \in DOMAIN tests, AnswerTest(t)
  PROVE  IInv'
<1>1. PICK answer \in Answers :
        tests' = [tests EXCEPT ![t].stage = "done", ![t].answer = answer]
  BY DEF AnswerTest
<1> DEFINE new == [tests[t] EXCEPT !.stage = "done", !.answer = answer]
<1>2. new \in Test /\ new.answer \in Answers
  BY TestType DEF IInv, Test
<1>3. tests' = [tests EXCEPT ![t] = new]
  BY <1>1
<1> HIDE DEF new
<1>4. tests' \in Seq(Test)
  BY <1>2, <1>3 DEF IInv, TypeOK
<1>5. TypeOK' /\ fills <= fills'
  BY <1>4 DEF IInv, TypeOK, AnswerTest, config, dispatcher
<1>6. \A u \in DOMAIN tests' : tests'[u].stage = "done" => tests'[u].answer \in Answers
  BY <1>2, <1>3 DEF IInv
<1> QED
  BY <1>5, <1>6, QuietKeeps DEF AnswerTest

LEMMA FinishTestInv ==
  ASSUME IInv, NEW t \in DOMAIN tests, FinishTest(t)
  PROVE  IInv'
<1> DEFINE new == [Finish(tests[t], tests[t].answer) EXCEPT !.stage = "none"]
<1>1. tests[t] \in Test /\ tests[t].answer \in Answers
  BY TestType DEF IInv, FinishTest
<1>2. new \in Test /\ new.stage = "none"
  BY <1>1 DEF Test, Finish
<1>3. tests' = [tests EXCEPT ![t] = new]
  BY DEF FinishTest
<1> HIDE DEF new
<1>4. tests' \in Seq(Test)
  BY <1>2, <1>3 DEF IInv, TypeOK
<1>5. TypeOK' /\ fills <= fills'
  BY <1>4 DEF IInv, TypeOK, FinishTest, config, dispatcher
<1>6. \A u \in DOMAIN tests' : tests'[u].stage = "done" => tests'[u].answer \in Answers
  BY <1>2, <1>3 DEF IInv
<1> QED
  BY <1>5, <1>6, QuietKeeps DEF FinishTest

LEMMA CrashDashboardInv == ASSUME IInv, CrashDashboard PROVE IInv'
<1>1. \A t \in DOMAIN tests : [tests[t] EXCEPT !.stage = "none"] \in Test
  BY TestType DEF IInv, Test
<1>2. tests' \in Seq(Test)
  <2>1. DOMAIN tests = 1 .. Len(tests) /\ Len(tests) \in Nat
    BY LenProperties DEF IInv, TypeOK
  <2> QED
    BY <1>1, <2>1, SeqDef DEF CrashDashboard
<1>3. TypeOK' /\ fills <= fills'
  BY <1>2 DEF IInv, TypeOK, CrashDashboard, config, dispatcher
<1>4. \A t \in DOMAIN tests' : tests'[t].stage = "done" => tests'[t].answer \in Answers
  BY TestType DEF IInv, CrashDashboard, Test
<1> QED
  BY <1>3, <1>4, QuietKeeps DEF CrashDashboard

(* Steps that leave the tests, the cursor and the configuration alone.     *)
LEMMA LocalKeeps ==
  ASSUME IInv, UNCHANGED <<fills, cursor, config, tests>>,
         pc' \in {"idle", "collect", "claim", "closing", "last"}, todo' \in SUBSET Channels,
         outbox' \in [Channels -> Seq(Trade)], task' \in [Channels -> Task],
         heard' \in [Channels -> Seq(Heard)],
         \A c \in Channels : Local(outbox'[c], task'[c], heard'[c], cursor)
  PROVE  IInv'
BY DEF IInv, TypeOK, config

LEMMA CollectInv ==
  ASSUME IInv, NEW c \in Channels, Collect(c)
  PROVE  IInv'
<1> DEFINE i == task[c].id
           m == Finish(outbox[c][i], task[c].answer)
<1>1. /\ UNCHANGED <<fills, cursor, config, tests, heard>>
      /\ pc' \in {"idle", "collect", "claim", "closing", "last"} /\ todo' \in SUBSET Channels
  BY DEF Collect, IInv, TypeOK
<1>2. CASE UNCHANGED <<outbox, task>>
  BY <1>1, <1>2, LocalKeeps DEF IInv, TypeOK
<1>3. CASE task[c].stage = "done"
  <2>1. /\ outbox' = [outbox EXCEPT ![c][i] = m]
        /\ task' = [task EXCEPT ![c] = NoTask]
    BY <1>3 DEF Collect
  <2>2. /\ outbox[c] \in Seq(Trade) /\ task[c] \in Task /\ heard[c] \in Seq(Heard)
        /\ cursor \in Nat /\ Local(outbox[c], task[c], heard[c], cursor)
    BY DEF IInv, TypeOK
  <2>3. i \in DOMAIN outbox[c] /\ task[c].answer \in Final
    BY <1>3, <2>2 DEF Local, TaskRow
  <2>4. outbox[c][i] \in Trade
    BY <2>2, <2>3, RowType
  <2>5. /\ m \in Trade /\ m.first = outbox[c][i].first /\ m.last = outbox[c][i].last
        /\ m.version = outbox[c][i].version
        /\ m.status = IF outbox[c][i].status = "sending" THEN task[c].answer
                      ELSE outbox[c][i].status
    BY <2>3, <2>4 DEF Finish, Trade
  <2> HIDE DEF m
  <2>6. /\ outbox' \in [Channels -> Seq(Trade)]
        /\ DOMAIN outbox'[c] = DOMAIN outbox[c]
        /\ \A j \in DOMAIN outbox[c] : outbox'[c][j] = IF j = i THEN m ELSE outbox[c][j]
        /\ \A d \in Channels \ {c} : outbox'[d] = outbox[d]
    BY <2>1, <2>3, <2>5, OneRow DEF IInv, TypeOK
  <2>7. task' \in [Channels -> Task] /\ task'[c] = NoTask
        /\ \A d \in Channels \ {c} : task'[d] = task[d]
    BY <2>1 DEF IInv, TypeOK, NoTask, Task
  <2>8. Local(outbox'[c], NoTask, heard[c], cursor)
    <3>1. SameMessages(outbox[c], outbox'[c])
      BY <2>5, <2>6 DEF SameMessages
    <3>2. \A j \in DOMAIN outbox[c] :
            outbox'[c][j].status = IF j = i /\ outbox[c][j].status = "sending"
                                   THEN task[c].answer ELSE outbox[c][j].status
      BY <2>5, <2>6
    <3>3. outbox'[c] \in Seq(Trade)
      BY <2>6
    <3> QED
      BY <1>3, <2>2, <3>1, <3>2, <3>3, AnswerKeeps
  <2>9. \A d \in Channels : Local(outbox'[d], task'[d], heard'[d], cursor)
    BY <1>1, <2>6, <2>7, <2>8 DEF IInv
  <2> QED
    BY <1>1, <2>6, <2>7, <2>9, LocalKeeps DEF IInv, TypeOK
<1> QED
  BY <1>2, <1>3 DEF Collect

LEMMA ClaimInv ==
  ASSUME IInv, NEW c \in Channels, Claim(c)
  PROVE  IInv'
<1>1. /\ UNCHANGED <<fills, cursor, config, tests, heard>>
      /\ pc' \in {"idle", "collect", "claim", "closing", "last"} /\ todo' \in SUBSET Channels
  BY DEF Claim, IInv, TypeOK
<1>2. CASE UNCHANGED <<outbox, task>>
  BY <1>1, <1>2, LocalKeeps DEF IInv, TypeOK
<1>3. CASE \E i \in Chosen(c) :
             /\ outbox' = [outbox EXCEPT ![c][i].status = "sending"]
             /\ task' = [task EXCEPT ![c] = [id |-> i, stage |-> "queued", answer |-> "none"]]
  <2>1. PICK i \in Chosen(c) :
             /\ outbox' = [outbox EXCEPT ![c][i].status = "sending"]
             /\ task' = [task EXCEPT ![c] = [id |-> i, stage |-> "queued", answer |-> "none"]]
    BY <1>3
  <2> DEFINE m == [outbox[c][i] EXCEPT !.status = "sending"]
             now == [id |-> i, stage |-> "queued", answer |-> "none"]
  <2>2. /\ outbox[c] \in Seq(Trade) /\ task[c] \in Task /\ heard[c] \in Seq(Heard)
        /\ cursor \in Nat /\ Local(outbox[c], task[c], heard[c], cursor)
    BY DEF IInv, TypeOK
  <2>3. /\ i \in DOMAIN outbox[c] /\ outbox[c][i].status = "pending"
        /\ \A j \in DOMAIN outbox[c] : outbox[c][j].status = "pending" => i <= j
    BY DEF Chosen, Pending
  <2>4. outbox[c][i] \in Trade /\ i \in Nat
    BY <2>2, <2>3, RowType
  <2>5. /\ m \in Trade /\ m.first = outbox[c][i].first /\ m.last = outbox[c][i].last
        /\ m.version = outbox[c][i].version /\ m.status = "sending"
    BY <2>4 DEF Trade
  <2>6. outbox' = [outbox EXCEPT ![c][i] = m]
    BY <2>1
  <2>7. task' \in [Channels -> Task] /\ task'[c] = now
        /\ \A d \in Channels \ {c} : task'[d] = task[d]
    BY <2>1, <2>4 DEF IInv, TypeOK, Task
  <2> HIDE DEF m
  <2>8. /\ outbox' \in [Channels -> Seq(Trade)]
        /\ DOMAIN outbox'[c] = DOMAIN outbox[c]
        /\ \A j \in DOMAIN outbox[c] : outbox'[c][j] = IF j = i THEN m ELSE outbox[c][j]
        /\ \A d \in Channels \ {c} : outbox'[d] = outbox[d]
    BY <2>3, <2>5, <2>6, OneRow DEF IInv, TypeOK
  <2>9. Local(outbox'[c], now, heard[c], cursor)
    <3>1. SameMessages(outbox[c], outbox'[c])
      BY <2>5, <2>8 DEF SameMessages
    <3>2. \A j \in DOMAIN outbox[c] :
            outbox'[c][j].status = IF j = i THEN "sending" ELSE outbox[c][j].status
      BY <2>5, <2>8
    <3>3. outbox'[c] \in Seq(Trade)
      BY <2>8
    <3> QED
      BY <2>2, <2>3, <3>1, <3>2, <3>3, ClaimKeeps
  <2> HIDE DEF now
  <2>10. \A d \in Channels : Local(outbox'[d], task'[d], heard'[d], cursor)
    BY <1>1, <2>7, <2>8, <2>9 DEF IInv
  <2> QED
    BY <1>1, <2>7, <2>8, <2>10, LocalKeeps DEF IInv, TypeOK
<1> QED
  BY <1>2, <1>3 DEF Claim

LEMMA CrashInv == ASSUME IInv, Crash PROVE IInv'
<1>1. task' \in [Channels -> Task]
  BY DEF Crash, NoTask, Task
<1>2. ASSUME NEW c \in Channels
      PROVE  Local(outbox'[c], task'[c], heard'[c], cursor)
  BY CrashKeeps DEF IInv, Crash
<1>3. /\ UNCHANGED <<fills, cursor, config, tests>>
      /\ pc' \in {"idle", "collect", "claim", "closing", "last"} /\ todo' \in SUBSET Channels
      /\ outbox' \in [Channels -> Seq(Trade)] /\ heard' \in [Channels -> Seq(Heard)]
  BY DEF Crash, IInv, TypeOK
<1> QED
  BY <1>1, <1>2, <1>3, LocalKeeps

LEMMA ReadConfigInv ==
  ASSUME IInv, NEW c \in Channels, ReadConfig(c)
  PROVE  IInv'
<1>1. /\ UNCHANGED <<fills, cursor, config, tests, outbox, heard>>
      /\ pc' \in {"idle", "collect", "claim", "closing", "last"} /\ todo' \in SUBSET Channels
  BY DEF ReadConfig, IInv, TypeOK, dispatcher
<1>2. PICK now \in Task :
        /\ task' = [task EXCEPT ![c] = now] /\ now.id = task[c].id
        /\ \/ now.stage = "ready"
           \/ now.stage = "done" /\ now.answer \in {"cancelled", "failed"}
  <2>1. task[c] \in Task
    BY DEF IInv, TypeOK
  <2>2. CASE task' = Answered(c, "cancelled")
    <3> DEFINE now == [task[c] EXCEPT !.stage = "done", !.answer = "cancelled"]
    <3>1. /\ now \in Task /\ now.id = task[c].id
          /\ now.stage = "done" /\ now.answer = "cancelled"
      BY <2>1 DEF Task, Final, Answers
    <3>2. task' = [task EXCEPT ![c] = now]
      BY <2>2 DEF Answered
    <3> HIDE DEF now
    <3> QED
      BY <3>1, <3>2
  <2>3. CASE task' = Answered(c, "failed")
    <3> DEFINE now == [task[c] EXCEPT !.stage = "done", !.answer = "failed"]
    <3>1. /\ now \in Task /\ now.id = task[c].id
          /\ now.stage = "done" /\ now.answer = "failed"
      BY <2>1 DEF Task, Final, Answers
    <3>2. task' = [task EXCEPT ![c] = now]
      BY <2>3 DEF Answered
    <3> HIDE DEF now
    <3> QED
      BY <3>1, <3>2
  <2>4. CASE task' = [task EXCEPT ![c].stage = "ready"]
    <3> DEFINE now == [task[c] EXCEPT !.stage = "ready"]
    <3>1. /\ now \in Task /\ now.id = task[c].id
          /\ now.stage = "ready"
      BY <2>1 DEF Task, Final, Answers
    <3>2. task' = [task EXCEPT ![c] = now]
      BY <2>4 DEF Answered
    <3> HIDE DEF now
    <3> QED
      BY <3>1, <3>2
  <2> QED
    BY <2>2, <2>3, <2>4 DEF ReadConfig
<1>3. task' \in [Channels -> Task] /\ task'[c] = now
      /\ \A d \in Channels \ {c} : task'[d] = task[d]
  BY <1>2 DEF IInv, TypeOK
<1>4. Local(outbox[c], now, heard[c], cursor)
  BY <1>2, ReadKeeps DEF IInv, TypeOK, ReadConfig
<1>5. \A d \in Channels : Local(outbox'[d], task'[d], heard'[d], cursor)
  BY <1>1, <1>3, <1>4 DEF IInv
<1> QED
  BY <1>1, <1>3, <1>5, LocalKeeps DEF IInv, TypeOK

LEMMA PostInv ==
  ASSUME IInv, NEW c \in Channels, Post(c)
  PROVE  IInv'
<1> DEFINE m == [first |-> outbox[c][task[c].id].first, last |-> outbox[c][task[c].id].last]
<1>1. PICK answer \in Answers, reached \in BOOLEAN :
        /\ answer = "sent" => reached
        /\ task' = Answered(c, answer)
        /\ heard' = IF ~reached THEN heard ELSE [heard EXCEPT ![c] = Append(@, m)]
  BY DEF Post
<1>2. /\ UNCHANGED <<fills, cursor, config, tests, outbox>>
      /\ pc' \in {"idle", "collect", "claim", "closing", "last"} /\ todo' \in SUBSET Channels
  BY DEF Post, IInv, TypeOK, dispatcher
<1>3. /\ outbox[c] \in Seq(Trade) /\ task[c] \in Task /\ heard[c] \in Seq(Heard)
      /\ cursor \in Nat /\ Local(outbox[c], task[c], heard[c], cursor)
  BY DEF IInv, TypeOK
<1>4. task[c].stage = "ready" /\ task[c].id \in DOMAIN outbox[c]
  BY <1>3 DEF Post, Local, TaskRow
<1> DEFINE now == [task[c] EXCEPT !.stage = "done", !.answer = answer]
<1>5. now \in Task /\ now.id = task[c].id /\ now.stage = "done" /\ now.answer = answer
  BY <1>3 DEF Task, Final
<1>6. task' = [task EXCEPT ![c] = now]
  BY <1>1 DEF Answered
<1> HIDE DEF now
<1>7. task' \in [Channels -> Task] /\ task'[c] = now
      /\ \A d \in Channels \ {c} : task'[d] = task[d]
  BY <1>5, <1>6 DEF IInv, TypeOK
<1>8. m \in Heard
  BY <1>3, <1>4, RowType DEF Heard
<1>9. /\ heard' \in [Channels -> Seq(Heard)]
      /\ \A d \in Channels \ {c} : heard'[d] = heard[d]
      /\ heard'[c] = IF reached THEN Append(heard[c], m) ELSE heard[c]
  <2> HIDE DEF m
  <2>1. Append(heard[c], m) \in Seq(Heard)
    BY <1>3, <1>8
  <2> QED
    BY <1>1, <2>1 DEF IInv, TypeOK
<1>10. Local(outbox[c], now, heard'[c], cursor)
  <2>1. heard'[c] \in Seq(Heard)
    BY <1>9
  <2>2. \/ heard'[c] = heard[c] /\ now.answer # "sent"
        \/ heard'[c] = Append(heard[c], m)
    BY <1>1, <1>5, <1>9
  <2> QED
    BY <1>1, <1>3, <1>4, <1>5, <2>1, <2>2, PostKeeps
<1>11. \A d \in Channels : Local(outbox'[d], task'[d], heard'[d], cursor)
  BY <1>2, <1>7, <1>9, <1>10 DEF IInv
<1> QED
  BY <1>2, <1>7, <1>9, <1>11, LocalKeeps DEF IInv, TypeOK

LEMMA SaveConfigInv == ASSUME IInv, SaveConfig PROVE IInv'
<1>1. ASSUME NEW c \in Channels, NEW i \in DOMAIN outbox[c]
      PROVE  /\ Withdrawn(outbox[c][i]) \in Trade
             /\ Withdrawn(outbox[c][i]).first = outbox[c][i].first
             /\ Withdrawn(outbox[c][i]).last = outbox[c][i].last
             /\ Withdrawn(outbox[c][i]).version = outbox[c][i].version
             /\ Withdrawn(outbox[c][i]).status =
                  IF outbox[c][i].status = "pending" THEN "cancelled" ELSE outbox[c][i].status
  <2>1. outbox[c][i] \in Trade
    BY RowType DEF IInv, TypeOK
  <2> QED
    BY <2>1 DEF Withdrawn, Trade, Final, Answers
<1> HIDE DEF Withdrawn
<1>2. outbox' = [c \in Channels |-> [i \in DOMAIN outbox[c] |-> Withdrawn(outbox[c][i])]]
  BY DEF SaveConfig
<1>3. outbox' \in [Channels -> Seq(Trade)]
  <2>1. ASSUME NEW c \in Channels
        PROVE  [i \in DOMAIN outbox[c] |-> Withdrawn(outbox[c][i])] \in Seq(Trade)
    <3>1. DOMAIN outbox[c] = 1 .. Len(outbox[c]) /\ Len(outbox[c]) \in Nat
      BY LenProperties DEF IInv, TypeOK
    <3> QED
      BY <1>1, <3>1, SeqDef
  <2> QED
    BY <1>2, <2>1
<1>4. ASSUME NEW c \in Channels
      PROVE  Local(outbox'[c], task'[c], heard'[c], cursor')
  <2>1. /\ outbox[c] \in Seq(Trade) /\ task[c] \in Task /\ heard[c] \in Seq(Heard)
        /\ cursor \in Nat /\ fills \in Nat /\ cursor <= fills
        /\ Local(outbox[c], task[c], heard[c], cursor)
    BY DEF IInv, TypeOK
  <2>2. outbox'[c] \in Seq(Trade)
    BY <1>3
  <2>3. SameMessages(outbox[c], outbox'[c])
    BY <1>1, <1>2 DEF SameMessages
  <2>4. \A i \in DOMAIN outbox[c] :
          outbox'[c][i].status =
            IF outbox[c][i].status = "pending" THEN "cancelled" ELSE outbox[c][i].status
    BY <1>1, <1>2
  <2>5. Local(outbox'[c], task[c], heard[c], fills)
    BY <2>1, <2>2, <2>3, <2>4, WithdrawKeeps
  <2> QED
    BY <2>5 DEF SaveConfig
<1>5. TypeOK' /\ base' <= cursor' /\ cursor' <= fills' /\ tests' = tests
  BY <1>3 DEF IInv, TypeOK, SaveConfig, dispatcher
<1> QED
  BY <1>4, <1>5 DEF IInv

(* tick's second transaction.                                              *)
LEMMA ExpiredKeeps ==
  ASSUME IInv, NEW late \in SUBSET Sending, NEW c \in Channels
  PROVE  /\ Expired(late, c) \in Seq(Trade)
         /\ SameMessages(outbox[c], Expired(late, c))
         /\ \A i \in DOMAIN outbox[c] :
              \/ Expired(late, c)[i] = outbox[c][i]
              \/ /\ outbox[c][i].status = "sending"
                 /\ Expired(late, c)[i] = [outbox[c][i] EXCEPT !.status = "unknown"]
         /\ Local(Expired(late, c), task[c], heard[c], cursor)
<1> DEFINE new == Expired(late, c)
<1>1. /\ outbox[c] \in Seq(Trade) /\ task[c] \in Task /\ heard[c] \in Seq(Heard)
      /\ cursor \in Nat /\ Local(outbox[c], task[c], heard[c], cursor)
  BY DEF IInv, TypeOK
<1>2. DOMAIN outbox[c] = 1 .. Len(outbox[c]) /\ Len(outbox[c]) \in Nat
  BY <1>1, LenProperties
<1>3. \A i \in DOMAIN outbox[c] : outbox[c][i] \in Trade
  BY <1>1, RowType
<1>4. \A i : <<c, i>> \in late => outbox[c][i].status = "sending"
  BY DEF Sending
<1>5. DOMAIN new = DOMAIN outbox[c] /\ new = [i \in DOMAIN outbox[c] |-> new[i]]
      /\ \A i \in DOMAIN outbox[c] :
              \/ new[i] = outbox[c][i]
              \/ /\ outbox[c][i].status = "sending"
                 /\ new[i] = [outbox[c][i] EXCEPT !.status = "unknown"]
  BY <1>4 DEF Expired
<1> HIDE DEF new
<1>6. ASSUME NEW i \in DOMAIN outbox[c]
      PROVE  /\ new[i] \in Trade /\ new[i].first = outbox[c][i].first
             /\ new[i].last = outbox[c][i].last /\ new[i].version = outbox[c][i].version
             /\ \/ new[i].status = outbox[c][i].status
                \/ outbox[c][i].status = "sending" /\ new[i].status = "unknown"
  <2> DEFINE r == outbox[c][i]
             s == new[i]
  <2>1. r \in Trade
    BY <1>3
  <2>2. \/ s = r
        \/ r.status = "sending" /\ s = [r EXCEPT !.status = "unknown"]
    BY <1>5, <1>6
  <2>3. "unknown" \in Final
    BY DEF Final, Answers
  <2> HIDE DEF r, s
  <2>4. /\ s \in Trade /\ s.first = r.first /\ s.last = r.last /\ s.version = r.version
        /\ \/ s.status = r.status
           \/ r.status = "sending" /\ s.status = "unknown"
    BY <2>1, <2>2, <2>3 DEF Trade
  <2> QED
    BY <2>4 DEF r, s
<1>7. new \in Seq(Trade)
  <2>1. /\ new = [i \in 1 .. Len(outbox[c]) |-> new[i]]
        /\ \A i \in 1 .. Len(outbox[c]) : new[i] \in Trade
    BY <1>2, <1>5, <1>6
  <2>2. new \in [1 .. Len(outbox[c]) -> Trade]
    BY <2>1
  <2> QED
    BY <1>2, <2>2, SeqDef
<1>8. SameMessages(outbox[c], new)
  BY <1>5, <1>6 DEF SameMessages
<1>9. Local(new, task[c], heard[c], cursor)
  BY <1>1, <1>6, <1>7, <1>8, ExpireKeeps
<1> QED
  BY <1>5, <1>7, <1>8, <1>9 DEF new

(* The cursor rises past fills that no message of the channel is about.    *)
LEMMA RiseKeeps ==
  ASSUME NEW box \in Seq(Trade), NEW t, NEW h, NEW upto \in Nat, NEW next \in Nat,
         Local(box, t, h, upto), upto <= next
  PROVE  Local(box, t, h, next)
<1>1. \A i \in DOMAIN box : box[i].last \in Nat
  BY RowType
<1> QED
  BY <1>1 DEF Local, Ordered

LEMMA LastReadType ==
  ASSUME IInv
  PROVE  LastRead \in Nat /\ cursor <= LastRead /\ LastRead <= fills
BY BoundsAssumption DEF IInv, TypeOK, LastRead

LEMMA NewMessagesType ==
  ASSUME IInv, NEW n \in 1 .. Batch, NEW end \in Splits(n)
  PROVE  /\ NewMessages(n, end) \in Seq(Trade) /\ Ordered(NewMessages(n, end), LastRead)
         /\ DOMAIN NewMessages(n, end) = 1 .. n
         /\ \A i \in 1 .. n : /\ NewMessages(n, end)[i].status = "pending"
                              /\ NewMessages(n, end)[i].version = version
                              /\ NewMessages(n, end)[i].first = end[i - 1] + 1
                              /\ NewMessages(n, end)[i].last = end[i]
                              /\ cursor < NewMessages(n, end)[i].first
<1> DEFINE more == NewMessages(n, end)
<1>1. n \in Nat /\ cursor \in Nat /\ version \in Nat /\ LastRead \in Nat
  BY LastReadType, BoundsAssumption DEF IInv, TypeOK
<1>2. end \in [0 .. n -> cursor .. LastRead] /\ \A i, j \in 0 .. n : i < j => end[i] < end[j]
  BY DEF Splits
<1>3. ASSUME NEW i \in 1 .. n
      PROVE  /\ i - 1 \in 0 .. n /\ i \in 0 .. n /\ end[i - 1] < end[i]
             /\ end[i - 1] \in Nat /\ end[i] \in Nat
             /\ cursor <= end[i - 1] /\ end[i] <= LastRead
  <2>1. i - 1 \in 0 .. n /\ i \in 0 .. n /\ i - 1 < i
    BY <1>1
  <2> QED
    BY <1>1, <1>2, <2>1
<1>4. DOMAIN more = 1 .. n /\ more = [i \in 1 .. n |-> more[i]]
      /\ \A i \in 1 .. n : more[i] = Message(end[i - 1] + 1, end[i])
  BY DEF NewMessages
<1> HIDE DEF more
<1>5. ASSUME NEW i \in 1 .. n
      PROVE  /\ more[i] \in Trade /\ more[i].status = "pending" /\ more[i].version = version
             /\ more[i].first = end[i - 1] + 1 /\ more[i].last = end[i]
  BY <1>1, <1>3, <1>4 DEF Message, Trade
<1>6. more \in Seq(Trade)
  BY <1>1, <1>4, <1>5, SeqDef
<1>7. Ordered(more, LastRead)
  <2>1. \A i \in 1 .. n :
          1 <= more[i].first /\ more[i].first <= more[i].last /\ more[i].last <= LastRead
    BY <1>3, <1>5
  <2>2. ASSUME NEW i \in 1 .. n, NEW j \in 1 .. n, i < j
        PROVE  more[i].last < more[j].first
    <3>1. i = j - 1 \/ i < j - 1
      BY <2>2
    <3>2. end[i] <= end[j - 1]
      <4>1. CASE i = j - 1
        BY <1>3, <4>1
      <4>2. CASE i < j - 1
        <5>1. i \in 0 .. n /\ j - 1 \in 0 .. n
          BY <1>3
        <5>2. end[i] < end[j - 1]
          BY <1>2, <4>2, <5>1
        <5> QED
          BY <1>3, <5>2
      <4> QED
        BY <3>1, <4>1, <4>2
    <3> QED
      BY <1>3, <1>5, <3>2
  <2> QED
    BY <1>4, <2>1, <2>2 DEF Ordered
<1>8. \A i \in 1 .. n : cursor < more[i].first
  BY <1>1, <1>3, <1>5
<1> QED
  BY <1>4, <1>5, <1>6, <1>7, <1>8 DEF more

LEMMA EnqueueInv ==
  ASSUME IInv, NEW late \in SUBSET Sending, NEW lateTests \in SUBSET SendingTests,
         Enqueue(late, lateTests)
  PROVE  IInv'
<1>1. /\ UNCHANGED <<fills, config, task, heard>> /\ pc' = "claim" /\ todo' = Channels
      /\ tests' = ExpiredTests(lateTests)
  BY DEF Enqueue
<1>2. tests' \in Seq(Test)
      /\ \A t \in DOMAIN tests' : tests'[t].stage = "done" => tests'[t].answer \in Answers
  <2>1. \A t \in DOMAIN tests : tests[t] \in Test
    BY TestType DEF IInv
  <2>2. DOMAIN tests = 1 .. Len(tests) /\ Len(tests) \in Nat
    BY LenProperties DEF IInv, TypeOK
  <2>3. DOMAIN tests' = DOMAIN tests /\ tests' = [t \in DOMAIN tests |-> tests'[t]]
        /\ \A t \in DOMAIN tests : \/ tests'[t] = tests[t]
                                   \/ tests'[t] = [tests[t] EXCEPT !.status = "unknown"]
    BY <1>1 DEF ExpiredTests
  <2>4. \A t \in DOMAIN tests : tests'[t] \in Test /\ tests'[t].stage = tests[t].stage
                                /\ tests'[t].answer = tests[t].answer
    BY <2>1, <2>3 DEF Test, Answers
  <2>5. tests' \in Seq(Test)
    BY <2>2, <2>3, <2>4, SeqDef
  <2> QED
    BY <2>3, <2>4, <2>5 DEF IInv
<1>3. /\ cursor' \in Nat /\ cursor <= cursor' /\ cursor' <= fills'
      /\ outbox' \in [Channels -> Seq(Trade)]
      /\ \A c \in Channels : Local(outbox'[c], task[c], heard[c], cursor')
  <2>1. cursor \in Nat /\ fills \in Nat /\ cursor <= fills
    BY DEF IInv, TypeOK
  <2>2. CASE cursor' \in {cursor, fills} /\ outbox' = [c \in Channels |-> Expired(late, c)]
    <3>1. outbox' \in [Channels -> Seq(Trade)]
      BY <2>2, ExpiredKeeps
    <3>2. ASSUME NEW c \in Channels
          PROVE  Local(outbox'[c], task[c], heard[c], cursor')
      BY <2>1, <2>2, ExpiredKeeps, RiseKeeps
    <3> QED
      BY <1>1, <2>1, <2>2, <3>1, <3>2
  <2>3. CASE /\ cursor' = LastRead
             /\ \E n \in 1 .. Batch : \E end \in Splits(n) :
                  outbox' = [c \in Channels |->
                    Expired(late, c) \o
                      (IF c \in enabled THEN NewMessages(n, end) ELSE << >>)]
    <3>1. PICK n \in 1 .. Batch : \E end \in Splits(n) :
                  outbox' = [c \in Channels |->
                    Expired(late, c) \o
                      (IF c \in enabled THEN NewMessages(n, end) ELSE << >>)]
      BY <2>3
    <3>2. PICK end \in Splits(n) :
                  outbox' = [c \in Channels |->
                    Expired(late, c) \o
                      (IF c \in enabled THEN NewMessages(n, end) ELSE << >>)]
      BY <3>1
    <3> DEFINE more(c) == IF c \in enabled THEN NewMessages(n, end) ELSE << >>
    <3>3. ASSUME NEW c \in Channels
          PROVE  /\ more(c) \in Seq(Trade) /\ Ordered(more(c), LastRead)
                 /\ \A i \in DOMAIN more(c) :
                      more(c)[i].status = "pending" /\ cursor < more(c)[i].first
      <4>1. CASE c \in enabled
        BY <4>1, NewMessagesType
      <4>2. CASE c \notin enabled
        <5>1. more(c) = << >>
          BY <4>2
        <5> HIDE DEF more
        <5> QED
          BY <5>1 DEF Ordered
      <4> QED
        BY <4>1, <4>2
    <3>4. outbox' = [c \in Channels |-> Expired(late, c) \o more(c)]
      BY <3>2
    <3> HIDE DEF more
    <3>5. LastRead \in Nat /\ cursor <= LastRead /\ LastRead <= fills
      BY LastReadType
    <3>6. ASSUME NEW c \in Channels
          PROVE  /\ outbox'[c] \in Seq(Trade)
                 /\ Local(outbox'[c], task[c], heard[c], LastRead)
      <4>1. /\ task[c] \in Task /\ heard[c] \in Seq(Heard)
        BY DEF IInv, TypeOK
      <4>2. /\ Expired(late, c) \in Seq(Trade)
            /\ Local(Expired(late, c), task[c], heard[c], cursor)
        BY ExpiredKeeps
      <4>3. Expired(late, c) \o more(c) \in Seq(Trade)
        BY <3>3, <4>2, ConcatProperties
      <4>4. Local(Expired(late, c) \o more(c), task[c], heard[c], LastRead)
        BY <2>1, <3>3, <3>5, <4>1, <4>2, AppendKeeps
      <4> QED
        BY <3>4, <4>3, <4>4
    <3> QED
      BY <1>1, <2>3, <3>4, <3>5, <3>6
  <2> QED
    BY <2>2, <2>3 DEF Enqueue
<1>4. TypeOK' /\ base' <= cursor'
  BY <1>1, <1>2, <1>3 DEF IInv, TypeOK, config
<1> QED
  BY <1>1, <1>2, <1>3, <1>4 DEF IInv

LEMMA NextInv == ASSUME IInv, [Next]_vars PROVE IInv'
<1>1. CASE CommitFill
  BY <1>1, CommitFillInv
<1>2. CASE StartTick
  BY <1>2, StartTickInv
<1>3. ASSUME NEW c \in Channels, Collect(c)
      PROVE  IInv'
  BY <1>3, CollectInv
<1>4. ASSUME NEW c \in Channels, Claim(c)
      PROVE  IInv'
  BY <1>4, ClaimInv
<1>5. ASSUME NEW late \in SUBSET Sending, NEW lateTests \in SUBSET SendingTests,
             Enqueue(late, lateTests)
      PROVE  IInv'
  BY <1>5, EnqueueInv
<1>6. CASE Abort \/ Close \/ Drained \/ Crash
  BY <1>6, AbortInv, CloseInv, DrainedInv, CrashInv
<1>7. ASSUME NEW c \in Channels, Deliver(c)
      PROVE  IInv'
  BY <1>7, ReadConfigInv, PostInv DEF Deliver
<1>8. CASE SaveConfig \/ StartTest \/ CrashDashboard
  BY <1>8, SaveConfigInv, StartTestInv, CrashDashboardInv
<1>9. ASSUME NEW t \in DOMAIN tests, AnswerTest(t) \/ FinishTest(t)
      PROVE  IInv'
  BY <1>9, AnswerTestInv, FinishTestInv
<1>10. CASE UNCHANGED vars
  BY <1>10 DEF vars, dispatcher, config, IInv, TypeOK
<1> QED
  BY <1>1, <1>2, <1>3, <1>4, <1>5, <1>6, <1>7, <1>8, <1>9, <1>10
     DEF Next, Worker, Tick, Dashboard

LEMMA Invariance == Spec => []IInv
BY InitInv, NextInv, PTL DEF Spec

----------------------------------------------------------------------------
(* The theorems.                                                           *)

(* Every variable keeps its type.                                          *)
THEOREM Typing == Spec => []TypeOK
<1>1. IInv => TypeOK
  BY DEF IInv
<1> QED
  BY <1>1, Invariance, PTL

(* 'sent' has reached the channel; 'pending' and 'cancelled' have not.     *)
THEOREM HistoryTold == Spec => []HistoryIsTrue
<1>1. IInv => HistoryIsTrue
  BY DEF IInv, Local, StatusTrue, Reached, HistoryIsTrue
<1> QED
  BY <1>1, Invariance, PTL

(* What a step may do to the rows: only a claimed row gets an outcome,     *)
(* and a new row is pending and of the present configuration.              *)
RowStep ==
  \A c \in Channels :
    /\ \A i \in DOMAIN outbox[c] :
         /\ i \in DOMAIN outbox'[c]
         /\ outbox'[c][i].first = outbox[c][i].first
         /\ outbox'[c][i].last = outbox[c][i].last
         /\ outbox'[c][i].version = outbox[c][i].version
         /\ \/ outbox'[c][i] = outbox[c][i]
            \/ outbox[c][i].status = "sending" /\ outbox'[c][i].status \in Final
            \/ outbox[c][i].status = "pending" /\ outbox'[c][i].status \in {"sending", "cancelled"}
    /\ \A i \in DOMAIN outbox'[c] \ DOMAIN outbox[c] :
         /\ outbox'[c][i].status = "pending" /\ outbox'[c][i].version = version
         /\ c \in enabled /\ outbox'[c][i].first > cursor

LEMMA QuietRows == ASSUME UNCHANGED outbox PROVE RowStep
BY DEF RowStep

LEMMA CollectRows ==
  ASSUME IInv, NEW c \in Channels, Collect(c)
  PROVE  RowStep
<1> DEFINE i == task[c].id
           m == Finish(outbox[c][i], task[c].answer)
<1>1. CASE UNCHANGED outbox
  BY <1>1, QuietRows
<1>2. CASE task[c].stage = "done"
  <2>1. outbox' = [outbox EXCEPT ![c][i] = m]
    BY <1>2 DEF Collect
  <2>2. outbox[c] \in Seq(Trade) /\ Local(outbox[c], task[c], heard[c], cursor)
    BY DEF IInv, TypeOK
  <2>3. i \in DOMAIN outbox[c] /\ task[c].answer \in Final
    BY <1>2, <2>2 DEF Local, TaskRow
  <2>4. outbox[c][i] \in Trade
    BY <2>2, <2>3, RowType
  <2>5. /\ m \in Trade /\ m.first = outbox[c][i].first /\ m.last = outbox[c][i].last
        /\ m.version = outbox[c][i].version
        /\ \/ m = outbox[c][i]
           \/ outbox[c][i].status = "sending" /\ m.status \in Final
    BY <2>3, <2>4 DEF Finish, Trade
  <2> HIDE DEF m
  <2>6. /\ DOMAIN outbox'[c] = DOMAIN outbox[c]
        /\ \A j \in DOMAIN outbox[c] : outbox'[c][j] = IF j = i THEN m ELSE outbox[c][j]
        /\ \A d \in Channels \ {c} : outbox'[d] = outbox[d]
    BY <2>1, <2>3, <2>5, OneRow DEF IInv, TypeOK
  <2>7. \A d \in Channels : DOMAIN outbox'[d] = DOMAIN outbox[d]
    BY <2>6
  <2> QED
    BY <2>5, <2>6, <2>7 DEF RowStep
<1> QED
  BY <1>1, <1>2 DEF Collect

LEMMA ClaimRows ==
  ASSUME IInv, NEW c \in Channels, Claim(c)
  PROVE  RowStep
<1>1. CASE UNCHANGED outbox
  BY <1>1, QuietRows
<1>2. CASE \E i \in Chosen(c) : outbox' = [outbox EXCEPT ![c][i].status = "sending"]
  <2>1. PICK i \in Chosen(c) : outbox' = [outbox EXCEPT ![c][i].status = "sending"]
    BY <1>2
  <2> DEFINE m == [outbox[c][i] EXCEPT !.status = "sending"]
  <2>2. i \in DOMAIN outbox[c] /\ outbox[c][i].status = "pending"
    BY DEF Chosen, Pending
  <2>3. outbox[c][i] \in Trade
    BY <2>2, RowType DEF IInv, TypeOK
  <2>4. /\ m \in Trade /\ m.first = outbox[c][i].first /\ m.last = outbox[c][i].last
        /\ m.version = outbox[c][i].version /\ m.status = "sending"
    BY <2>3 DEF Trade
  <2>5. outbox' = [outbox EXCEPT ![c][i] = m]
    BY <2>1
  <2> HIDE DEF m
  <2>6. /\ DOMAIN outbox'[c] = DOMAIN outbox[c]
        /\ \A j \in DOMAIN outbox[c] : outbox'[c][j] = IF j = i THEN m ELSE outbox[c][j]
        /\ \A d \in Channels \ {c} : outbox'[d] = outbox[d]
    BY <2>2, <2>4, <2>5, OneRow DEF IInv, TypeOK
  <2>7. \A d \in Channels : DOMAIN outbox'[d] = DOMAIN outbox[d]
    BY <2>6
  <2> QED
    BY <2>2, <2>4, <2>6, <2>7 DEF RowStep
<1> QED
  BY <1>1, <1>2 DEF Claim

(* A box followed by other rows, at the places of each.                    *)
LEMMA Followed ==
  ASSUME NEW box \in Seq(Trade), NEW more \in Seq(Trade)
  PROVE  /\ \A i \in DOMAIN box : i \in DOMAIN (box \o more) /\ (box \o more)[i] = box[i]
         /\ \A i \in DOMAIN (box \o more) \ DOMAIN box :
              i - Len(box) \in DOMAIN more /\ (box \o more)[i] = more[i - Len(box)]
         /\ \A j \in DOMAIN more :
              Len(box) + j \in DOMAIN (box \o more) /\ (box \o more)[Len(box) + j] = more[j]
<1> DEFINE new == box \o more
<1>1. /\ new \in Seq(Trade) /\ Len(new) = Len(box) + Len(more)
      /\ \A i \in 1 .. Len(box) + Len(more) :
           new[i] = IF i <= Len(box) THEN box[i] ELSE more[i - Len(box)]
  BY ConcatProperties
<1>2. DOMAIN box = 1 .. Len(box) /\ DOMAIN more = 1 .. Len(more) /\ DOMAIN new = 1 .. Len(new)
      /\ Len(box) \in Nat /\ Len(more) \in Nat
  BY <1>1, LenProperties
<1> HIDE DEF new
<1> QED
  BY <1>1, <1>2 DEF new

LEMMA EnqueueRows ==
  ASSUME IInv, NEW late \in SUBSET Sending, NEW lateTests \in SUBSET SendingTests,
         Enqueue(late, lateTests)
  PROVE  RowStep
<1>1. ASSUME NEW c \in Channels
      PROVE  /\ Expired(late, c) \in Seq(Trade)
             /\ DOMAIN Expired(late, c) = DOMAIN outbox[c]
             /\ \A i \in DOMAIN outbox[c] :
                  /\ Expired(late, c)[i].first = outbox[c][i].first
                  /\ Expired(late, c)[i].last = outbox[c][i].last
                  /\ Expired(late, c)[i].version = outbox[c][i].version
                  /\ \/ Expired(late, c)[i] = outbox[c][i]
                     \/ /\ outbox[c][i].status = "sending"
                        /\ Expired(late, c)[i].status \in Final
  <2>1. /\ Expired(late, c) \in Seq(Trade) /\ SameMessages(outbox[c], Expired(late, c))
        /\ \A i \in DOMAIN outbox[c] :
              \/ Expired(late, c)[i] = outbox[c][i]
              \/ /\ outbox[c][i].status = "sending"
                 /\ Expired(late, c)[i] = [outbox[c][i] EXCEPT !.status = "unknown"]
    BY ExpiredKeeps
  <2>2. \A i \in DOMAIN outbox[c] : outbox[c][i] \in Trade
    BY RowType DEF IInv, TypeOK
  <2>3. \A i \in DOMAIN outbox[c] :
          Expired(late, c)[i] = [outbox[c][i] EXCEPT !.status = "unknown"]
            => Expired(late, c)[i].status \in Final
    BY <2>2 DEF Trade, Final, Answers
  <2> QED
    BY <2>1, <2>3 DEF SameMessages
<1>2. CASE outbox' = [c \in Channels |-> Expired(late, c)]
  BY <1>1, <1>2 DEF RowStep
<1>3. CASE \E n \in 1 .. Batch : \E end \in Splits(n) :
             outbox' = [c \in Channels |->
               Expired(late, c) \o (IF c \in enabled THEN NewMessages(n, end) ELSE << >>)]
  <2>1. PICK n \in 1 .. Batch : \E end \in Splits(n) :
             outbox' = [c \in Channels |->
               Expired(late, c) \o (IF c \in enabled THEN NewMessages(n, end) ELSE << >>)]
    BY <1>3
  <2>2. PICK end \in Splits(n) :
             outbox' = [c \in Channels |->
               Expired(late, c) \o (IF c \in enabled THEN NewMessages(n, end) ELSE << >>)]
    BY <2>1
  <2> DEFINE more(c) == IF c \in enabled THEN NewMessages(n, end) ELSE << >>
  <2>3. ASSUME NEW c \in Channels
        PROVE  /\ more(c) \in Seq(Trade)
               /\ \A i \in DOMAIN more(c) :
                    /\ more(c)[i].status = "pending" /\ more(c)[i].version = version
                    /\ c \in enabled /\ cursor < more(c)[i].first
    BY NewMessagesType
  <2>4. outbox' = [c \in Channels |-> Expired(late, c) \o more(c)]
    BY <2>2
  <2> HIDE DEF more
  <2>5. ASSUME NEW c \in Channels
        PROVE  /\ \A i \in DOMAIN Expired(late, c) :
                    i \in DOMAIN outbox'[c] /\ outbox'[c][i] = Expired(late, c)[i]
               /\ \A i \in DOMAIN outbox'[c] \ DOMAIN Expired(late, c) :
                    /\ i - Len(Expired(late, c)) \in DOMAIN more(c)
                    /\ outbox'[c][i] = more(c)[i - Len(Expired(late, c))]
    BY <1>1, <2>3, <2>4, Followed
  <2>6. \A c \in Channels : \A i \in DOMAIN more(c) : more(c)[i].first > cursor
    <3>1. \A c \in Channels : \A i \in DOMAIN more(c) : more(c)[i].first \in Nat
      BY <2>3, RowType
    <3> QED
      BY <2>3, <3>1 DEF IInv, TypeOK
  <2> QED
    BY <1>1, <2>3, <2>5, <2>6 DEF RowStep
<1> QED
  BY <1>2, <1>3 DEF Enqueue

LEMMA SaveConfigRows ==
  ASSUME IInv, SaveConfig
  PROVE  /\ RowStep
         /\ \A c \in Channels : \A i \in DOMAIN outbox'[c] : outbox'[c][i].status # "pending"
<1>1. \A c \in Channels : \A i \in DOMAIN outbox[c] : outbox[c][i] \in Trade
  BY RowType DEF IInv, TypeOK
<1>2. ASSUME NEW c \in Channels
      PROVE  /\ DOMAIN outbox'[c] = DOMAIN outbox[c]
             /\ \A i \in DOMAIN outbox[c] : outbox'[c][i] = Withdrawn(outbox[c][i])
  BY DEF SaveConfig
<1>3. ASSUME NEW m \in Trade
      PROVE  /\ Withdrawn(m).first = m.first /\ Withdrawn(m).last = m.last
             /\ Withdrawn(m).version = m.version /\ Withdrawn(m).status # "pending"
             /\ Withdrawn(m) = m \/ (m.status = "pending" /\ Withdrawn(m).status = "cancelled")
  BY DEF Withdrawn, Trade, Final, Answers
<1> QED
  BY <1>1, <1>2, <1>3 DEF RowStep

LEMMA RowSteps ==
  ASSUME IInv, [Next]_vars
  PROVE  RowStep /\ (SaveConfig \/ UNCHANGED config)
<1>1. CASE SaveConfig
  BY <1>1, SaveConfigRows
<1>2. ASSUME NEW c \in Channels, Collect(c)
      PROVE  RowStep /\ UNCHANGED config
  BY <1>2, CollectRows DEF Collect
<1>3. ASSUME NEW c \in Channels, Claim(c)
      PROVE  RowStep /\ UNCHANGED config
  BY <1>3, ClaimRows DEF Claim
<1>4. ASSUME NEW late \in SUBSET Sending, NEW lateTests \in SUBSET SendingTests,
             Enqueue(late, lateTests)
      PROVE  RowStep /\ UNCHANGED config
  BY <1>4, EnqueueRows DEF Enqueue
<1>5. CASE \/ CommitFill \/ StartTick \/ Abort \/ Close \/ Drained \/ Crash
           \/ StartTest \/ CrashDashboard \/ UNCHANGED vars
  BY <1>5, QuietRows
     DEF CommitFill, StartTick, Abort, Close, Drained, Crash, StartTest, CrashDashboard, vars
<1>6. ASSUME NEW c \in Channels, Deliver(c)
      PROVE  RowStep /\ UNCHANGED config
  BY <1>6, QuietRows DEF Deliver, ReadConfig, Post
<1>7. ASSUME NEW t \in DOMAIN tests, AnswerTest(t) \/ FinishTest(t)
      PROVE  RowStep /\ UNCHANGED config
  BY <1>7, QuietRows DEF AnswerTest, FinishTest
<1> QED
  BY <1>1, <1>2, <1>3, <1>4, <1>5, <1>6, <1>7 DEF Next, Worker, Tick, Dashboard

(* A pending message belongs to the configuration in force.                *)
THEOREM PendingBelongs == Spec => []PendingIsCurrent
<1>1. Init => PendingIsCurrent
  BY DEF Init, PendingIsCurrent, Pending
<1>2. IInv /\ PendingIsCurrent /\ [Next]_vars => PendingIsCurrent'
  <2> SUFFICES ASSUME IInv, PendingIsCurrent, [Next]_vars
               PROVE  PendingIsCurrent'
    OBVIOUS
  <2>1. CASE SaveConfig
    BY <2>1, SaveConfigRows DEF PendingIsCurrent, Pending
  <2>2. CASE UNCHANGED config
    <3>1. UNCHANGED <<version, enabled, base>>
      BY <2>2 DEF config
    <3> SUFFICES ASSUME NEW c \in Channels, NEW i \in DOMAIN outbox'[c],
                        outbox'[c][i].status = "pending"
                 PROVE  /\ outbox'[c][i].version = version
                        /\ c \in enabled /\ outbox'[c][i].first > base
      BY <3>1 DEF PendingIsCurrent, Pending
    <3>2. CASE i \in DOMAIN outbox[c]
      BY <3>2, RowSteps DEF RowStep, PendingIsCurrent, Pending, Final, Answers
    <3>3. CASE i \notin DOMAIN outbox[c]
      <4>1. /\ outbox'[c][i].version = version
            /\ c \in enabled /\ outbox'[c][i].first > cursor
        BY <3>3, RowSteps DEF RowStep
      <4>2. outbox'[c][i].first \in Nat
        BY NextInv, RowType DEF IInv, TypeOK
      <4> QED
        BY <4>1, <4>2 DEF IInv, TypeOK
    <3> QED
      BY <3>2, <3>3
  <2> QED
    BY <2>1, <2>2, RowSteps
<1> QED
  BY <1>1, <1>2, Invariance, PTL DEF Spec

(* The outcome of a message, or of a test, is final.                       *)
THEOREM Finality == Spec => OutcomeIsFinal
<1>1. IInv /\ [Next]_vars =>
        /\ \A c \in Channels : \A i \in DOMAIN outbox[c] :
             outbox[c][i].status \in Final => outbox'[c][i] = outbox[c][i]
        /\ \A t \in DOMAIN tests :
             tests[t].status \in Final => tests'[t].status = tests[t].status
  <2> SUFFICES ASSUME IInv, [Next]_vars
               PROVE  /\ \A c \in Channels : \A i \in DOMAIN outbox[c] :
                           outbox[c][i].status \in Final => outbox'[c][i] = outbox[c][i]
                      /\ \A t \in DOMAIN tests :
                           tests[t].status \in Final => tests'[t].status = tests[t].status
    OBVIOUS
  <2>1. \A c \in Channels : \A i \in DOMAIN outbox[c] :
          outbox[c][i].status \in Final => outbox'[c][i] = outbox[c][i]
    BY RowSteps DEF RowStep, Final, Answers
  <2>2. \A t \in DOMAIN tests : tests[t] \in Test
    BY TestType DEF IInv
  <2> DEFINE TestsFinal == \A t \in DOMAIN tests :
                             tests[t].status \in Final => tests'[t].status = tests[t].status
  <2>3. ASSUME UNCHANGED tests
        PROVE  TestsFinal
    BY <2>3
  <2>4. ASSUME StartTest
        PROVE  TestsFinal
    BY <2>4 DEF StartTest, IInv, TypeOK
  <2>5. ASSUME NEW u \in DOMAIN tests, AnswerTest(u)
        PROVE  TestsFinal
    <3>1. PICK answer \in Answers :
            tests' = [tests EXCEPT ![u].stage = "done", ![u].answer = answer]
      BY <2>5 DEF AnswerTest
    <3> QED
      BY <2>2, <3>1 DEF Test
  <2>6. ASSUME NEW u \in DOMAIN tests, FinishTest(u)
        PROVE  TestsFinal
    BY <2>2, <2>6 DEF FinishTest, Finish, Test, Final, Answers
  <2>7. ASSUME CrashDashboard
        PROVE  TestsFinal
    BY <2>2, <2>7 DEF CrashDashboard, Test
  <2>8. ASSUME NEW late \in SUBSET Sending, NEW lateTests \in SUBSET SendingTests,
               Enqueue(late, lateTests)
        PROVE  TestsFinal
    <3>1. \A t \in lateTests : tests[t].status = "sending"
      BY DEF SendingTests
    <3>2. tests' = ExpiredTests(lateTests)
      BY <2>8 DEF Enqueue
    <3> QED
      BY <2>2, <3>1, <3>2 DEF ExpiredTests, Final, Answers
  <2> HIDE DEF TestsFinal
  <2>9. TestsFinal
    BY <2>3, <2>4, <2>5, <2>6, <2>7, <2>8
       DEF Next, Worker, Tick, Dashboard, Deliver, CommitFill, StartTick, Collect, Claim,
           Abort, Close, Drained, Crash, ReadConfig, Post, SaveConfig, vars
  <2> QED
    BY <2>1, <2>9 DEF TestsFinal
<1> QED
  BY <1>1, Invariance, PTL DEF Spec, OutcomeIsFinal

LEMMA NatMin ==
  ASSUME NEW S \in SUBSET Nat, NEW n \in S
  PROVE  \E x \in S : \A y \in S : x <= y
<1>1. IsWellFoundedOn(OpToRel(<, Nat), Nat)
  BY NatLessThanWellFounded
<1>2. \E x \in S : \A y \in S : ~(<<y, x>> \in OpToRel(<, Nat))
  BY <1>1, WFMin
<1>3. \A x, y \in Nat : y < x => <<y, x>> \in OpToRel(<, Nat)
  BY Zenon DEF OpToRel
<1>4. \E x \in S : \A y \in S : ~(y < x)
  BY <1>2, <1>3, Zenon
<1>5. \A x, y \in Nat : ~(y < x) => x <= y
  BY SMT
<1> QED
  BY <1>4, <1>5, Zenon

(* The messages of a batch are about every fill it read.                   *)
LEMMA SplitsCover ==
  ASSUME IInv, NEW n \in 1 .. Batch, NEW end \in Splits(n), NEW f \in cursor + 1 .. LastRead
  PROVE  \E i \in 1 .. n : end[i - 1] < f /\ f <= end[i]
<1>1. n \in Nat /\ cursor \in Nat /\ LastRead \in Nat
  BY LastReadType, BoundsAssumption DEF IInv, TypeOK
<1>2. /\ end \in [0 .. n -> cursor .. LastRead] /\ end[0] = cursor /\ end[n] = LastRead
  BY DEF Splits
<1> DEFINE S == {i \in 0 .. n : f <= end[i]}
<1>3. S \in SUBSET Nat /\ n \in S
  BY <1>1, <1>2
<1>4. PICK i \in S : \A j \in S : i <= j
  <2> HIDE DEF S
  <2> QED
    BY <1>3, NatMin
<1>5. i \in 1 .. n /\ i - 1 \in 0 .. n /\ f <= end[i]
  BY <1>1, <1>2, <1>4
<1>6. ~(f <= end[i - 1])
  BY <1>1, <1>4, <1>5
<1>7. end[i - 1] \in Nat
  BY <1>1, <1>2, <1>5
<1> QED
  BY <1>1, <1>5, <1>6, <1>7

(* No fill that the cursor has passed is left out of an enabled channel.   *)
THEOREM NothingIsSkipped == Spec => []NothingSkipped
<1>1. Init => NothingSkipped
  BY DEF Init, NothingSkipped
<1>2. IInv /\ NothingSkipped /\ [Next]_vars => NothingSkipped'
  <2> SUFFICES ASSUME IInv, NothingSkipped, [Next]_vars
               PROVE  NothingSkipped'
    OBVIOUS
  <2> DEFINE In(c, f) == \E i \in DOMAIN outbox'[c] :
               /\ outbox'[c][i].version = version
               /\ outbox'[c][i].first <= f /\ f <= outbox'[c][i].last
  <2>1. CASE SaveConfig
    <3>1. base' = cursor' /\ cursor' \in Nat
      BY <2>1 DEF SaveConfig, IInv, TypeOK
    <3>2. \A n \in Nat : \A f \in n + 1 .. n : FALSE
      OBVIOUS
    <3> QED
      BY <3>1, <3>2 DEF NothingSkipped
  <2>2. ASSUME NEW c \in enabled, NEW f \in base + 1 .. cursor
        PROVE  In(c, f)
    <3>1. PICK i \in DOMAIN outbox[c] :
            /\ outbox[c][i].version = version
            /\ outbox[c][i].first <= f /\ f <= outbox[c][i].last
      BY DEF NothingSkipped
    <3>2. c \in Channels
      BY DEF IInv, TypeOK
    <3>3. /\ i \in DOMAIN outbox'[c] /\ outbox'[c][i].first = outbox[c][i].first
          /\ outbox'[c][i].last = outbox[c][i].last
          /\ outbox'[c][i].version = outbox[c][i].version
      BY <3>2, RowSteps DEF RowStep
    <3> QED
      BY <3>1, <3>3
  <2>3. CASE UNCHANGED <<config, cursor>>
    BY <2>2, <2>3 DEF NothingSkipped, config
  <2>4. ASSUME NEW late \in SUBSET Sending, NEW lateTests \in SUBSET SendingTests,
               Enqueue(late, lateTests)
        PROVE  NothingSkipped'
    <3>1. UNCHANGED <<version, enabled, base>>
      BY <2>4 DEF Enqueue, config
    <3>2. CASE enabled = {}
      BY <3>1, <3>2 DEF NothingSkipped
    <3>3. CASE enabled # {} /\ cursor < fills
      <4>0. ~(cursor = fills)
        BY <3>3 DEF IInv, TypeOK
      <4>1. PICK n \in 1 .. Batch : \E end \in Splits(n) :
              outbox' = [c \in Channels |->
                Expired(late, c) \o (IF c \in enabled THEN NewMessages(n, end) ELSE << >>)]
        BY <2>4, <3>3, <4>0 DEF Enqueue
      <4>2. PICK end \in Splits(n) :
              outbox' = [c \in Channels |->
                Expired(late, c) \o (IF c \in enabled THEN NewMessages(n, end) ELSE << >>)]
        BY <4>1
      <4>3. ASSUME NEW c \in enabled, NEW f \in cursor + 1 .. LastRead
            PROVE  In(c, f)
        <5>1. c \in Channels
          BY DEF IInv, TypeOK
        <5>2. PICK i \in 1 .. n : end[i - 1] < f /\ f <= end[i]
          BY SplitsCover
        <5>3. /\ NewMessages(n, end) \in Seq(Trade) /\ i \in DOMAIN NewMessages(n, end)
              /\ NewMessages(n, end)[i].version = version
              /\ NewMessages(n, end)[i].first = end[i - 1] + 1
              /\ NewMessages(n, end)[i].last = end[i]
          BY NewMessagesType
        <5>4. outbox'[c] = Expired(late, c) \o NewMessages(n, end)
          BY <4>2, <5>1
        <5>5. Expired(late, c) \in Seq(Trade)
          BY <5>1, ExpiredKeeps
        <5> DEFINE k == Len(Expired(late, c)) + i
        <5>6. k \in DOMAIN outbox'[c] /\ outbox'[c][k] = NewMessages(n, end)[i]
          BY <5>3, <5>4, <5>5, Followed
        <5>7. end[i - 1] \in Nat /\ f \in Nat
          <6>1. cursor \in Nat /\ n \in Nat /\ LastRead \in Nat
            BY LastReadType, BoundsAssumption DEF IInv, TypeOK
          <6>2. i - 1 \in 0 .. n
            BY <6>1
          <6> QED
            BY <6>1, <6>2 DEF Splits
        <5>8. end[i - 1] + 1 <= f
          BY <5>2, <5>7
        <5> HIDE DEF k
        <5> QED
          BY <5>2, <5>3, <5>6, <5>8
      <4>4. cursor' = LastRead
        BY <2>4, <3>3, <4>0 DEF Enqueue
      <4>5. \A f \in base + 1 .. cursor' :
              f \in base + 1 .. cursor \/ f \in cursor + 1 .. LastRead
        BY <4>4, LastReadType DEF IInv, TypeOK
      <4>6. \A c \in enabled : \A f \in base + 1 .. cursor' : In(c, f)
        <5> HIDE DEF In
        <5> QED
          BY <2>2, <4>3, <4>5
      <4> QED
        BY <3>1, <4>6 DEF NothingSkipped
    <3>4. CASE enabled # {} /\ cursor = fills
      <4>1. cursor' = cursor
        BY <2>4, <3>4 DEF Enqueue, IInv, TypeOK
      <4> QED
        BY <2>2, <3>1, <4>1 DEF NothingSkipped
    <3> QED
      BY <2>4, <3>2, <3>3, <3>4 DEF Enqueue
  <2> QED
    BY <2>1, <2>3, <2>4
       DEF Next, Worker, Tick, Dashboard, Deliver, CommitFill, StartTick, Collect, Claim,
           Abort, Close, Drained, Crash, ReadConfig, Post, StartTest, AnswerTest, FinishTest,
           CrashDashboard, vars
<1> QED
  BY <1>1, <1>2, Invariance, PTL DEF Spec

(* The outbox implements the promise: what reaches a channel is about      *)
(* committed fills, in their order, each at most once.                     *)
THEOREM PromiseKept == Spec => KeepsPromise
<1>1. Init => Promise!Init
  BY DEF Init, Promise!Init
<1>2. IInv /\ [Next]_vars => [Promise!Next]_(Promise!vars)
  <2> SUFFICES ASSUME IInv, [Next]_vars
               PROVE  [Promise!Next]_(Promise!vars)
    OBVIOUS
  <2>1. CASE UNCHANGED <<fills, heard>>
    BY <2>1 DEF Promise!vars
  <2>2. CASE CommitFill
    BY <2>2 DEF CommitFill, Promise!Next, Promise!Commit
  <2>3. ASSUME NEW c \in Channels, Post(c)
        PROVE  [Promise!Next]_(Promise!vars)
    <3> DEFINE row == outbox[c][task[c].id]
               m == [first |-> row.first, last |-> row.last]
    <3>1. UNCHANGED fills /\ (heard' = heard \/ heard' = [heard EXCEPT ![c] = Append(@, m)])
      BY <2>3 DEF Post
    <3>2. CASE heard' = [heard EXCEPT ![c] = Append(@, m)]
      <4>1. /\ outbox[c] \in Seq(Trade) /\ Local(outbox[c], task[c], heard[c], cursor)
            /\ cursor \in Nat /\ fills \in Nat /\ cursor <= fills
        BY DEF IInv, TypeOK
      <4>2. task[c].stage = "ready" /\ task[c].id \in DOMAIN outbox[c]
        BY <2>3, <4>1 DEF Post, Local, TaskRow
      <4>3. row.first \in Nat /\ row.last \in Nat
        BY <4>1, <4>2, RowType
      <4>4. 1 <= row.first /\ row.first <= row.last /\ row.last <= cursor
        BY <4>1, <4>2 DEF Local, Ordered
      <4>5. \A k \in DOMAIN heard[c] : heard[c][k].last < row.first
        BY <4>1, <4>2 DEF Local, HeardBefore
      <4> HIDE DEF row
      <4>6. row.first \in 1 .. fills /\ row.last \in 1 .. fills
        <5>1. fills \in Nat /\ cursor \in Nat /\ cursor <= fills
          BY <4>1
        <5> QED
          BY <4>3, <4>4, <5>1
      <4>7. Promise!Tell(c, m)
        BY <3>1, <3>2, <4>4, <4>5, <4>6 DEF Promise!Tell
      <4> QED
        BY <4>6, <4>7 DEF Promise!Next
    <3> QED
      BY <2>1, <3>1, <3>2
  <2> QED
    BY <2>1, <2>2, <2>3
       DEF Next, Worker, Tick, Dashboard, Deliver, StartTick, Collect, Claim, Enqueue, Abort,
           Close, Drained, Crash, ReadConfig, SaveConfig, StartTest, AnswerTest, FinishTest,
           CrashDashboard, vars
<1> QED
  BY <1>1, <1>2, Invariance, PTL DEF Spec, KeepsPromise, Promise!Spec
=============================================================================
