------------------------------- MODULE Server -------------------------------
(***************************************************************************)
(* The line protocol of the TCP server: one task per connection reads      *)
(* lines, collects BEGIN BATCH ... END BATCH, executes, and writes one     *)
(* answer per request.  Clients send without waiting, may stop in the      *)
(* middle of a line and may close at any time; the server may be told to   *)
(* shut down.  What a statement does to the database is the matter of the  *)
(* other modules; here its execution is one synchronous step.              *)
(***************************************************************************)
EXTENDS Naturals, Sequences, FiniteSets

CONSTANTS
  Conns,
  MaxLines,   \* bound: lines a client has to send
  NoUnit

\* A line is a statement, something that does not parse, protocol, empty, or
\* not UTF-8: then next_line returns an error.
Tokens == {"stmt", "bad", "begin", "end", "blank", "garbled"}
Scripts == UNION {[1 .. n -> Tokens] : n \in 0 .. MaxLines}

ASSUME ServerAssumption == MaxLines \in Nat /\ IsFiniteSet(Conns)

VARIABLES
  script,    \* what the client means to send
  sent,      \* how many lines have arrived
  torn,      \* the last of them was cut off by the end of the stream
  closed,    \* the client has closed
  mode,      \* where the task of the connection stands
  rd,        \* lines read
  stmts,     \* batch_stmts: the lines of the statements collected
  failed,    \* batch_err is set
  unit,      \* what is being executed or answered: its statements, its outcome
  log,       \* history: the units executed, in order
  answers,   \* the responses written
  stopping   \* the accept loop has ended

client == <<script, sent, torn, closed>>
task == <<mode, rd, stmts, failed, unit, log, answers>>
vars == <<client, task, stopping>>

Unit == [stmts : Seq(Nat), batch : BOOLEAN, last : Nat, outcome : {"open", "ok", "error"}]

Init ==
  /\ script \in [Conns -> Scripts]
  /\ sent = [c \in Conns |-> 0]
  /\ torn = [c \in Conns |-> FALSE]
  /\ closed = [c \in Conns |-> FALSE]
  /\ mode = [c \in Conns |-> "new"]
  /\ rd = [c \in Conns |-> 0]
  /\ stmts = [c \in Conns |-> <<>>]
  /\ failed = [c \in Conns |-> FALSE]
  /\ unit = [c \in Conns |-> NoUnit]
  /\ log = [c \in Conns |-> <<>>]
  /\ answers = [c \in Conns |-> <<>>]
  /\ stopping = FALSE

-----------------------------------------------------------------------------
(* The client *)

Send(c) ==
  /\ ~closed[c]
  /\ sent[c] < Len(script[c])
  /\ sent' = [sent EXCEPT ![c] = @ + 1]
  /\ UNCHANGED <<script, torn, closed, task, stopping>>

\* The stream ends after a whole line, or inside the next one.
Close(c) ==
  /\ ~closed[c]
  /\ closed' = [closed EXCEPT ![c] = TRUE]
  /\ \/ UNCHANGED <<sent, torn>>
     \/ /\ sent[c] < Len(script[c])
        /\ script[c][sent[c] + 1] # "blank"
        /\ sent' = [sent EXCEPT ![c] = @ + 1]
        /\ torn' = [torn EXCEPT ![c] = TRUE]
  /\ UNCHANGED <<script, task, stopping>>

-----------------------------------------------------------------------------
(* The task of a connection *)

\* Accepted and spawned, while the server is not shutting down.
Accept(c) ==
  /\ mode[c] = "new"
  /\ ~stopping
  /\ mode' = [mode EXCEPT ![c] = "read"]
  /\ UNCHANGED <<client, rd, stmts, failed, unit, log, answers, stopping>>

\* What a line read as number n may turn out to be: one cut off by the end of
\* the stream may lack only its newline, may still parse, or not, may end inside
\* a character, or only be blanks.
Meanings(c, n) ==
  {script[c][n]} \cup (IF torn[c] /\ n = sent[c] THEN {"stmt", "bad", "blank", "garbled"} ELSE {})

\* Mutant of HasLine: a line is complete when the next one arrives.
HasLineLate(c) == rd[c] + 1 < sent[c]

HasLine(c) == rd[c] < sent[c]
AtEof(c) == closed[c] /\ rd[c] = sent[c]

OneUnit(c, outcome) ==
  [stmts |-> <<rd'[c]>>, batch |-> FALSE, last |-> rd'[c], outcome |-> outcome]

\* Mutant of FreshBatch: the statements of the previous batch are kept.
FreshBatchKeeps(c) ==
  /\ failed' = [failed EXCEPT ![c] = FALSE]
  /\ UNCHANGED stmts

FreshBatch(c) ==
  /\ stmts' = [stmts EXCEPT ![c] = <<>>]
  /\ failed' = [failed EXCEPT ![c] = FALSE]

\* A line outside a batch.  END BATCH has no meaning there: it does not
\* parse.  A line that is not UTF-8 ends the connection.
ReadLine(c) ==
  /\ mode[c] = "read"
  /\ HasLine(c)
  /\ rd' = [rd EXCEPT ![c] = @ + 1]
  /\ \E tok \in Meanings(c, rd[c] + 1) :
       /\ mode' = [mode EXCEPT ![c] = CASE tok = "blank" -> "read"
                                        [] tok = "begin" -> "batch"
                                        [] tok = "stmt" -> "exec"
                                        [] tok = "garbled" -> "gone"
                                        [] OTHER -> "respond"]
       /\ unit' = [unit EXCEPT ![c] = CASE tok = "stmt" -> OneUnit(c, "open")
                                        [] tok \in {"bad", "end"} -> OneUnit(c, "error")
                                        [] OTHER -> NoUnit]
  /\ FreshBatch(c)
  /\ UNCHANGED <<client, log, answers, stopping>>

ReadEof(c) ==
  /\ mode[c] = "read"
  /\ AtEof(c)
  /\ mode' = [mode EXCEPT ![c] = "gone"]
  /\ UNCHANGED <<client, rd, stmts, failed, unit, log, answers, stopping>>

\* Mutant of Collect: a line that does not parse is skipped.
CollectSkipping(c, tok, n) ==
  /\ stmts' = [stmts EXCEPT ![c] = IF tok = "stmt" THEN Append(@, n) ELSE @]
  /\ UNCHANGED failed

\* A statement joins the batch; after the first line that does not parse the
\* rest is drained.  BEGIN BATCH does not parse inside a batch.
Collect(c, tok, n) ==
  /\ stmts' = [stmts EXCEPT ![c] = IF tok = "stmt" /\ ~failed[c] THEN Append(@, n) ELSE @]
  /\ failed' = [failed EXCEPT ![c] = @ \/ tok \in {"bad", "begin"}]

BatchUnit(c) ==
  [stmts |-> stmts[c], batch |-> TRUE, last |-> rd'[c],
   outcome |-> IF failed[c] THEN "error" ELSE "open"]

\* Leaving the inner loop: at END BATCH, and at a line that is not UTF-8.
EndBatch(c) ==
  /\ mode' = [mode EXCEPT ![c] = IF failed[c] THEN "respond" ELSE "exec"]
  /\ unit' = [unit EXCEPT ![c] = BatchUnit(c)]
  /\ UNCHANGED <<stmts, failed>>

BatchLine(c) ==
  /\ mode[c] = "batch"
  /\ HasLine(c)
  /\ rd' = [rd EXCEPT ![c] = @ + 1]
  /\ \E tok \in Meanings(c, rd[c] + 1) :
       IF tok \in {"end", "garbled"} THEN EndBatch(c)
       ELSE Collect(c, tok, rd[c] + 1) /\ UNCHANGED <<mode, unit>>
  /\ UNCHANGED <<client, log, answers, stopping>>

\* The end of the stream leaves the inner loop like END BATCH does.
BatchEof(c) ==
  /\ mode[c] = "batch"
  /\ AtEof(c)
  /\ UNCHANGED rd
  /\ EndBatch(c)
  /\ UNCHANGED <<client, log, answers, stopping>>

\* Synchronous: it runs to its end even if the server is stopping.
Execute(c) ==
  /\ mode[c] = "exec"
  /\ \E outcome \in {"ok", "error"} :
       /\ unit' = [unit EXCEPT ![c].outcome = outcome]
       /\ log' = [log EXCEPT ![c] = Append(@, unit'[c])]
  /\ mode' = [mode EXCEPT ![c] = "respond"]
  /\ UNCHANGED <<client, rd, stmts, failed, answers, stopping>>

\* Mutant of Respond: the outcome is lost.
RespondOk(c) ==
  /\ mode[c] = "respond"
  /\ answers' = [answers EXCEPT ![c] = Append(@, [unit[c] EXCEPT !.outcome = "ok"])]
  /\ mode' = [mode EXCEPT ![c] = "read"]
  /\ unit' = [unit EXCEPT ![c] = NoUnit]
  /\ UNCHANGED <<client, rd, stmts, failed, log, stopping>>

Respond(c) ==
  /\ mode[c] = "respond"
  /\ answers' = [answers EXCEPT ![c] = Append(@, unit[c])]
  /\ mode' = [mode EXCEPT ![c] = "read"]
  /\ unit' = [unit EXCEPT ![c] = NoUnit]
  /\ UNCHANGED <<client, rd, stmts, failed, log, stopping>>

\* Writing to a client that has closed may fail: the task ends.
WriteError(c) ==
  /\ mode[c] = "respond"
  /\ closed[c]
  /\ mode' = [mode EXCEPT ![c] = "gone"]
  /\ UNCHANGED <<client, rd, stmts, failed, unit, log, answers, stopping>>

-----------------------------------------------------------------------------
(* Shutdown *)

\* A signal, or the end of standard input: the accept loop breaks.
Shutdown ==
  /\ ~stopping
  /\ stopping' = TRUE
  /\ UNCHANGED <<client, task>>

\* Mutant of Cancel: a task that waits for its client is left alone.
CancelResponding(c) ==
  /\ stopping
  /\ mode[c] \in {"new", "respond"}
  /\ mode' = [mode EXCEPT ![c] = "gone"]
  /\ UNCHANGED <<client, rd, stmts, failed, unit, log, answers, stopping>>

\* The runtime is dropped with main, and a task with it, at the point where the
\* task waits; until then it may go on.
Cancel(c) ==
  /\ stopping
  /\ mode[c] \in {"new", "read", "batch", "respond"}
  /\ mode' = [mode EXCEPT ![c] = "gone"]
  /\ UNCHANGED <<client, rd, stmts, failed, unit, log, answers, stopping>>

-----------------------------------------------------------------------------

Work(c) ==
  \/ Accept(c) \/ ReadLine(c) \/ ReadEof(c) \/ BatchLine(c) \/ BatchEof(c)
  \/ Execute(c) \/ Respond(c) \/ WriteError(c) \/ Cancel(c)

\* Everything is sent, read and closed, or the server has stopped.
Finished == \A c \in Conns : mode[c] = "gone" /\ closed[c]

Next ==
  \/ \E c \in Conns : Send(c) \/ Close(c) \/ Work(c)
  \/ Shutdown
  \/ Finished /\ stopping /\ UNCHANGED vars

\* Tasks that can go on do; clients and signals are not assumed to.
Fairness == \A c \in Conns : WF_vars(Work(c))

Spec == Init /\ [][Next]_vars /\ Fairness

-----------------------------------------------------------------------------
(* Properties *)

\* Every variable stays in its domain.
TypeOK ==
  /\ sent \in [Conns -> 0 .. MaxLines]
  /\ torn \in [Conns -> BOOLEAN]
  /\ closed \in [Conns -> BOOLEAN]
  /\ mode \in [Conns -> {"new", "read", "batch", "exec", "respond", "gone"}]
  /\ rd \in [Conns -> 0 .. MaxLines]
  /\ stmts \in [Conns -> Seq(Nat)]
  /\ failed \in [Conns -> BOOLEAN]
  /\ unit \in [Conns -> Unit \cup {NoUnit}]
  /\ log \in [Conns -> Seq(Unit)]
  /\ answers \in [Conns -> Seq(Unit)]

\* Statements are executed at most once and in the order they were sent, whatever
\* errors, batches and blank lines are between them.
InOrder ==
  \A c \in Conns : \A i, j \in DOMAIN log[c] :
    \A k \in DOMAIN log[c][i].stmts, l \in DOMAIN log[c][j].stmts :
      i < j \/ (i = j /\ k < l) => log[c][i].stmts[k] < log[c][j].stmts[l]

\* A batch is executed whole or not at all: it holds every line between its BEGIN
\* and its end but the blank ones, so all of them parsed; and its end is END BATCH,
\* a line that is not UTF-8, or the end of a stream the client has closed.
BatchWhole ==
  \A c \in Conns : \A i \in DOMAIN log[c] :
    LET u == log[c][i]
        held(n) == \E k \in DOMAIN u.stmts : u.stmts[k] = n
        cut(n) == torn[c] /\ n = sent[c]
        leaves(n) == script[c][n] \in {"end", "garbled"}
    IN u.batch => \E b \in 1 .. u.last :
         /\ script[c][b] = "begin"
         /\ leaves(u.last) \/ (closed[c] /\ u.last = sent[c])
         /\ \A n \in b + 1 .. u.last :
              held(n) \/ script[c][n] = "blank" \/ cut(n) \/ (n = u.last /\ leaves(n))

\* At most the last unit of a connection is in doubt: everything executed before
\* it was answered, in order and with its own outcome, also when the client or the
\* server went away; and nothing that was not executed is told to be done.
AtMostOneInDoubt ==
  \A c \in Conns :
    /\ \A i, j \in DOMAIN answers[c] : i < j => answers[c][i].last < answers[c][j].last
    /\ \A i \in DOMAIN log[c] : i < Len(log[c]) => \E j \in DOMAIN answers[c] : answers[c][j] = log[c][i]
    /\ \A i \in DOMAIN log[c], j \in DOMAIN answers[c] :
         answers[c][j].last = log[c][i].last => answers[c][j] = log[c][i]
    /\ \A j \in DOMAIN answers[c] : answers[c][j].outcome = "ok"
         => \E i \in DOMAIN log[c] : log[c][i] = answers[c][j]

\* Requests are answered in order and none is passed over: a line that was read
\* and is not blank belongs to a request that is answered or in progress.
NoRequestSkipped ==
  \A c \in Conns : \A n \in 1 .. rd[c] :
    mode[c] = "read" /\ script[c][n] # "blank" /\ ~(torn[c] /\ n = sent[c])
      => \E i \in DOMAIN answers[c] : answers[c][i].last >= n

\* Answers tell the client what was executed, but for the last request.
AnswersTell == AtMostOneInDoubt /\ NoRequestSkipped

\* A line that arrives is read and dealt with, unless the connection ends.
EveryLineRead ==
  \A c \in Conns : rd[c] < sent[c] ~> (rd[c] = sent[c] \/ mode[c] = "gone")

\* Shutdown ends every task, also one whose client never sends anything again.
ShutdownEnds == stopping ~> \A c \in Conns : mode[c] = "gone"
=============================================================================
