----------------------------- MODULE StoreClient -----------------------------
(***************************************************************************)
(* A set of commands sent to the vector store in batches, a few batches at *)
(* a time (gateway/tcp.js; runBatchedCommandSet and mapWithConcurrency in  *)
(* gateway/index.js; client_thread in server.cpp).  A batch is written     *)
(* down one connection; its replies come back in pieces of any length, and *)
(* are told apart by their line ends and matched by their order alone.     *)
(*                                                                         *)
(* The commands are those that are sent in batches, VSET and VDEL: each is *)
(* answered with one line that is not empty.  Every other command goes     *)
(* alone, on a connection of its own (sendCmd), and may be answered with   *)
(* an empty line: a search that found nothing.  Connections share nothing  *)
(* here, so a behaviour has either the batches or the one command.  A      *)
(* timer may fire whenever the client waits.                               *)
(***************************************************************************)
EXTENDS Integers, Sequences, FiniteSets

CONSTANTS
  CommandCount,        \* how many commands there are
  PerBatch,     \* VECTOR_WRITE_BATCH_SIZE
  Lanes,        \* the runners of mapWithConcurrency
  MaxBreaks     \* bound: how often the store dies or a connection breaks

ASSUME ClientAssumption == CommandCount \in Nat /\ PerBatch \in Nat \ {0} /\ MaxBreaks \in Nat

Commands  == 1 .. CommandCount
Batches   == 1 .. (CommandCount + PerBatch - 1) \div PerBatch
OffsetOf(b) == (b - 1) * PerBatch
BatchOf(b)  == {c \in Commands : c > OffsetOf(b) /\ c <= OffsetOf(b) + PerBatch}
CommandsOf(b) == [n \in 1 .. Cardinality(BatchOf(b)) |-> OffsetOf(b) + n]
LineEnd   == [to |-> 0, says |-> "end"]
Reply(c, answer) == IF answer = "empty" THEN <<LineEnd>>
                    ELSE <<[to |-> c, says |-> answer], LineEnd>>

VARIABLES
  cursor,    \* the next batch to take
  lane,      \* per runner: its batch, the text not yet parsed, the replies
  inbox,     \* per batch: the commands its connection's thread has still to read
  stream,    \* per batch: what the store has written and the client not received
  alone,     \* command 1 sent alone: where its caller is, the text so far
  results,   \* what the caller is given, per command
  answered,  \* history: what the store answered to each command, in order
  breaks

cvars == <<cursor, lane, inbox, stream, alone, results, answered, breaks>>

NoBatch == [batch |-> 0, pending |-> <<>>, replies |-> <<>>]

ClientInit ==
  /\ cursor = 1
  /\ lane = [l \in Lanes |-> NoBatch]
  /\ inbox = [b \in Batches |-> <<>>] /\ stream = [b \in Batches |-> <<>>]
  /\ alone \in [at: {"unused", "ready"}, text: {<<>>}]
  /\ results = [c \in Commands |-> "none"]
  /\ answered = [c \in Commands |-> <<>>]
  /\ breaks = 0

Listens(b) == \/ \E l \in Lanes : lane[l].batch = b
              \/ b = 1 /\ alone.at = "waits"

(* A runner takes the next batch and writes all of it at once.             *)
SendBatch(l) ==
  /\ lane[l] = NoBatch /\ cursor \in Batches /\ alone.at = "unused"
  /\ cursor' = cursor + 1
  /\ lane' = [lane EXCEPT ![l].batch = cursor]
  /\ inbox' = [inbox EXCEPT ![cursor] = CommandsOf(cursor)]
  /\ UNCHANGED <<stream, alone, results, answered, breaks>>

(* What batched commands are answered, and other commands.                 *)
Answers == IF alone.at = "unused" THEN {"OK", "ERR"} ELSE {"OK", "ERR", "empty"}

(* client_thread: the next line is carried out and answered, whether the   *)
(* client still waits or not.                                              *)
Serve(b) ==
  /\ inbox[b] # <<>>
  /\ LET c == Head(inbox[b])
     IN  \E answer \in Answers :
           /\ answered' = [answered EXCEPT ![c] = Append(@, answer)]
           /\ stream' = IF Listens(b) THEN [stream EXCEPT ![b] = @ \o Reply(c, answer)] ELSE stream
  /\ inbox' = [inbox EXCEPT ![b] = Tail(@)]
  /\ UNCHANGED <<cursor, lane, alone, results, breaks>>

(* The thread of a connection the client has left: writing a reply throws, *)
(* and what it has not read yet is not carried out.                        *)
ThreadEnds(b) ==
  /\ inbox[b] # <<>> /\ ~Listens(b)
  /\ inbox' = [inbox EXCEPT ![b] = <<>>]
  /\ UNCHANGED <<cursor, lane, stream, alone, results, answered, breaks>>

-----------------------------------------------------------------------------
(* extractReplyLines: the lines that are complete, without the empty ones, *)
(* and what is left behind the last of them.                               *)
EndsOf(text)      == {n \in 1 .. Len(text) : text[n] = LineEnd}
EndBefore(text, n) == LET before == {k \in EndsOf(text) : k < n}
                      IN  IF before = {} THEN 0 ELSE CHOOSE k \in before : \A j \in before : j <= k
LinesOf(text) ==
  LET full   == {n \in EndsOf(text) : EndBefore(text, n) < n - 1}
      nth(i) == CHOOSE n \in full : Cardinality({k \in full : k < n}) = i - 1
  IN  [i \in 1 .. Cardinality(full) |-> SubSeq(text, EndBefore(text, nth(i)) + 1, nth(i) - 1)]

(* Mutant: the text is kept when its lines have been taken.                *)
RemainderAll(text) == text

Remainder(text) == SubSeq(text, EndBefore(text, Len(text) + 1) + 1, Len(text))

(* isVectorCommandReplyOk, for the replies in their order.                 *)
Judged(b, replies) ==
  [c \in Commands |-> IF c \in BatchOf(b)
                      THEN IF replies[c - OffsetOf(b)][1].says = "OK" THEN "ok" ELSE "failed"
                      ELSE results[c]]

(* Data arrive.  When there are as many replies as commands, the batch is  *)
(* done.                                                                   *)
Receive(l) ==
  /\ lane[l] # NoBatch
  /\ LET b == lane[l].batch
     IN  /\ stream[b] # <<>>
         /\ \E n \in 1 .. Len(stream[b]) :
              LET text    == lane[l].pending \o SubSeq(stream[b], 1, n)
                  replies == lane[l].replies \o LinesOf(text)
              IN  IF Len(replies) < Len(CommandsOf(b))
                  THEN /\ lane' = [lane EXCEPT ![l].pending = Remainder(text), ![l].replies = replies]
                       /\ stream' = [stream EXCEPT ![b] = SubSeq(@, n + 1, Len(@))]
                       /\ UNCHANGED results
                  ELSE /\ lane' = [lane EXCEPT ![l] = NoBatch]
                       /\ stream' = [stream EXCEPT ![b] = <<>>]
                       /\ results' = Judged(b, replies)
  /\ UNCHANGED <<cursor, inbox, alone, answered, breaks>>

(* The batch is given up: all its commands have failed for the caller,     *)
(* whatever became of them.                                                *)
GivenUp(l) ==
  LET b == lane[l].batch
  IN  /\ results' = [c \in Commands |-> IF c \in BatchOf(b) THEN "failed" ELSE results[c]]
      /\ lane' = [lane EXCEPT ![l] = NoBatch]
      /\ stream' = [stream EXCEPT ![b] = <<>>]

TimesOut(l) ==
  /\ lane[l] # NoBatch
  /\ GivenUp(l)
  /\ UNCHANGED <<cursor, inbox, alone, answered, breaks>>

(* The connection breaks, or the store dies: what was not read is lost,    *)
(* and the client hears of it.                                             *)
Breaks(l) ==
  /\ lane[l] # NoBatch /\ breaks < MaxBreaks /\ breaks' = breaks + 1
  /\ GivenUp(l)
  /\ inbox' = [inbox EXCEPT ![lane[l].batch] = <<>>]
  /\ UNCHANGED <<cursor, alone, answered>>

-----------------------------------------------------------------------------
(* sendCmd: one command, whose reply is all the text there is when the     *)
(* first line end has come.                                                *)
SendAlone ==
  /\ alone.at = "ready" /\ alone' = [alone EXCEPT !.at = "waits"]
  /\ inbox' = [inbox EXCEPT ![1] = <<1>>]
  /\ UNCHANGED <<cursor, lane, stream, results, answered, breaks>>

AloneEnds(result) ==
  /\ alone' = [at |-> "over", text |-> <<>>]
  /\ results' = [results EXCEPT ![1] = result]
  /\ stream' = [stream EXCEPT ![1] = <<>>]

(* isVectorCommandReplyOk and the callers' parsing of the reply.           *)
Meaning(text) == CASE text[1] = LineEnd -> "empty"
                   [] text[1].says = "OK" -> "ok"
                   [] OTHER -> "failed"

ReceiveAlone ==
  /\ alone.at = "waits" /\ stream[1] # <<>>
  /\ \E n \in 1 .. Len(stream[1]) :
       LET text == alone.text \o SubSeq(stream[1], 1, n)
       IN  IF EndsOf(text) # {}
           THEN AloneEnds(Meaning(text))
           ELSE /\ alone' = [alone EXCEPT !.text = text]
                /\ stream' = [stream EXCEPT ![1] = SubSeq(@, n + 1, Len(@))]
                /\ UNCHANGED results
  /\ UNCHANGED <<cursor, lane, inbox, answered, breaks>>

AloneTimesOut ==
  /\ alone.at = "waits" /\ AloneEnds("failed")
  /\ UNCHANGED <<cursor, lane, inbox, answered, breaks>>

(* An error is heard; a connection that the store only closes is not, for  *)
(* sendCmd has no handler for that, and its timer remains.                 *)
AloneBreaks ==
  /\ alone.at = "waits" /\ breaks < MaxBreaks /\ breaks' = breaks + 1
  /\ inbox' = [inbox EXCEPT ![1] = <<>>]
  /\ AloneEnds("failed") \/ UNCHANGED <<alone, results, stream>>
  /\ UNCHANGED <<cursor, lane, answered>>

ClientNext ==
  \/ SendAlone \/ ReceiveAlone \/ AloneTimesOut \/ AloneBreaks
  \/ \E l \in Lanes : SendBatch(l) \/ Receive(l) \/ TimesOut(l) \/ Breaks(l)
  \/ \E b \in Batches : Serve(b) \/ ThreadEnds(b)
ClientSpec == ClientInit /\ [][ClientNext]_cvars

-----------------------------------------------------------------------------
(* Whatever pieces the replies come in, and whatever was given up before:  *)
(* a command is carried out at most once; one that the caller is told is   *)
(* done was carried out and accepted; one whose reply is empty was answered *)
(* with nothing; and a caller who gets the results of a set gets one for   *)
(* each command.                                                           *)
RepliesMatch ==
  /\ \A c \in Commands : Len(answered[c]) <= 1
  /\ \A c \in Commands : results[c] = "ok" => answered[c] = <<"OK">>
  /\ \A c \in Commands : results[c] = "empty" => answered[c] = <<"empty">>
  /\ alone.at = "unused" /\ cursor \notin Batches /\ (\A l \in Lanes : lane[l] = NoBatch)
       => \A c \in Commands : results[c] # "none"
=============================================================================
