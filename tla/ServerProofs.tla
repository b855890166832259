---------------------------- MODULE ServerProofs ----------------------------
(***************************************************************************)
(* Theorems about Server, for any number of connections and scripts of any *)
(* length.  The parts of the invariants are stated about the values of one *)
(* connection, because connections share nothing but the shutdown.         *)
(***************************************************************************)
EXTENDS Server, SequenceTheorems, TLAPS

\* Lines are read after they are sent, only a closed stream is cut off, and a unit
\* that is executed or answered ends with the line read last.
ControlOK ==
  \A c \in Conns :
    /\ sent[c] <= Len(script[c]) /\ rd[c] <= sent[c]
    /\ torn[c] => closed[c]
    /\ mode[c] = "new" => rd[c] = 0
    /\ mode[c] \in {"exec", "respond"} => unit[c] \in Unit /\ unit[c].last = rd[c]
    /\ mode[c] = "exec" => unit[c].outcome = "open"

TypeInv == script \in [Conns -> Scripts] /\ TypeOK /\ ControlOK

\* Units q all end before line n, and one after the other.
Below(q, n) == \A i \in DOMAIN q : q[i].last < n
Rising(q) == \A i, j \in DOMAIN q : i < j => q[i].last < q[j].last

\* The first n units of lg are answered.
Told(lg, an, n) == \A i \in DOMAIN lg : i <= n => \E j \in DOMAIN an : an[j] = lg[i]

\* Answers tell outcomes as they were.
Truthful(lg, an) ==
  /\ \A i \in DOMAIN lg, j \in DOMAIN an : an[j].last = lg[i].last => an[j] = lg[i]
  /\ \A j \in DOMAIN an : an[j].outcome = "ok" => \E i \in DOMAIN lg : lg[i] = an[j]

\* What is answered, by where the task stands (m), the lines read (r) and its unit (u).
AnswersOK(m, r, u, lg, an) ==
  /\ Rising(lg) /\ Rising(an) /\ Truthful(lg, an) /\ Told(lg, an, Len(lg) - 1)
  /\ Below(lg, r + 1) /\ Below(an, r + 1)
  /\ m \in {"new", "read", "batch", "exec"} => Told(lg, an, Len(lg))
  /\ m = "batch" => Below(lg, r) /\ Below(an, r)
  /\ m = "exec" => Below(lg, u.last) /\ Below(an, u.last)
  /\ m = "respond" =>
       /\ Below(an, u.last)
       /\ \/ u.outcome = "error" /\ Below(lg, u.last) /\ Told(lg, an, Len(lg))
          \/ lg # <<>> /\ u = lg[Len(lg)]

\* Line numbers s rise, up to r, and are above all units of lg.
Lines(s, r, lg) ==
  /\ \A k, l \in DOMAIN s : k < l => s[k] < s[l]
  /\ \A k \in DOMAIN s : s[k] <= r
  /\ \A i \in DOMAIN lg, k \in DOMAIN s : lg[i].last < s[k]

OrderOK(m, r, s, u, lg) ==
  /\ \A i \in DOMAIN lg :
       /\ \A k, l \in DOMAIN lg[i].stmts : k < l => lg[i].stmts[k] < lg[i].stmts[l]
       /\ \A k \in DOMAIN lg[i].stmts : lg[i].stmts[k] <= lg[i].last
       /\ \A j \in DOMAIN lg : i < j => \A l \in DOMAIN lg[j].stmts : lg[i].last < lg[j].stmts[l]
  /\ m = "batch" => Lines(s, r, lg)
  /\ m = "exec" => Lines(u.stmts, u.last, lg)

\* From line b + 1 to r a batch is collected without a gap.
Gapless(scr, sn, tn, s, b, r) ==
  \A n \in b + 1 .. r :
    (\E k \in DOMAIN s : s[k] = n) \/ scr[n] = "blank" \/ (tn /\ n = sn)

\* A unit is one statement or a whole batch.
Whole(scr, sn, tn, cl, u) ==
  u.batch => \E b \in 1 .. u.last :
    /\ scr[b] = "begin"
    /\ scr[u.last] \in {"end", "garbled"} \/ (cl /\ u.last = sn)
    /\ \A n \in b + 1 .. u.last :
         \/ (\E k \in DOMAIN u.stmts : u.stmts[k] = n) \/ scr[n] = "blank" \/ (tn /\ n = sn)
         \/ (n = u.last /\ scr[n] \in {"end", "garbled"})

BatchOK(scr, sn, tn, cl, m, r, s, fl, u, lg) ==
  /\ \A i \in DOMAIN lg : Whole(scr, sn, tn, cl, lg[i])
  /\ m = "exec" => Whole(scr, sn, tn, cl, u)
  /\ m = "batch" /\ ~fl => \E b \in 1 .. r : scr[b] = "begin" /\ Gapless(scr, sn, tn, s, b, r)

SkipOK(scr, sn, tn, m, r, an) ==
  m = "read" => \A n \in 1 .. r :
    scr[n] # "blank" /\ ~(tn /\ n = sn) => \E i \in DOMAIN an : an[i].last >= n

\* The inductive invariant.
ServerInv ==
  /\ TypeInv
  /\ \A c \in Conns :
       /\ AnswersOK(mode[c], rd[c], unit[c], log[c], answers[c])
       /\ OrderOK(mode[c], rd[c], stmts[c], unit[c], log[c])
       /\ BatchOK(script[c], sent[c], torn[c], closed[c], mode[c], rd[c], stmts[c], failed[c],
                  unit[c], log[c])
       /\ SkipOK(script[c], sent[c], torn[c], mode[c], rd[c], answers[c])

-----------------------------------------------------------------------------
(* Types and control: what a step does to the values of its connection *)

LEMMA ScriptType ==
  ASSUME NEW s \in Scripts
  PROVE  s \in Seq(Tokens) /\ Len(s) \in 0 .. MaxLines
<1>1. PICK n \in 0 .. MaxLines : s \in [1 .. n -> Tokens]
  BY DEF Scripts
<1>2. n \in Nat
  BY <1>1, ServerAssumption
<1>3. s \in Seq(Tokens)
  BY <1>1, <1>2, SeqDef
<1>4. Len(s) = n
  BY <1>1, <1>2, <1>3, LenProperties
<1> QED
  BY <1>1, <1>3, <1>4

Modes == {"new", "read", "batch", "exec", "respond", "gone"}

\* The task does not move.
Still(c) ==
  /\ mode'[c] = mode[c] /\ rd'[c] = rd[c] /\ stmts'[c] = stmts[c] /\ failed'[c] = failed[c]
  /\ unit'[c] = unit[c] /\ log'[c] = log[c] /\ answers'[c] = answers[c]

\* The stream does not move.
Quiet(c) == sent'[c] = sent[c] /\ torn'[c] = torn[c] /\ closed'[c] = closed[c]

\* Other connections do not move.
Frame(c) == /\ script' = script
            /\ \A d \in Conns : d # c => Quiet(d) /\ Still(d)

\* More arrives: a whole line, the end of the stream, or a line it cuts off.
Arrives(c) ==
  /\ Still(c) /\ ~closed[c]
  /\ \/ sent[c] < Len(script[c]) /\ sent'[c] = sent[c] + 1 /\ torn'[c] = torn[c] /\ ~closed'[c]
     \/ closed'[c] /\ sent'[c] = sent[c] /\ torn'[c] = torn[c]
     \/ sent[c] < Len(script[c]) /\ sent'[c] = sent[c] + 1 /\ torn'[c] /\ closed'[c]

\* Only the mode changes: to "read" at the start, or to "gone".
Turns(c) ==
  /\ Quiet(c)
  /\ rd'[c] = rd[c] /\ stmts'[c] = stmts[c] /\ failed'[c] = failed[c]
  /\ unit'[c] = unit[c] /\ log'[c] = log[c] /\ answers'[c] = answers[c]
  /\ \/ mode[c] = "new" /\ mode'[c] = "read"
     \/ mode[c] # "exec" /\ mode'[c] = "gone"

\* A line that means tok is read outside a batch.
Reads(c, tok) ==
  /\ Quiet(c) /\ mode[c] = "read" /\ rd[c] < sent[c] /\ tok \in Meanings(c, rd[c] + 1)
  /\ rd'[c] = rd[c] + 1 /\ stmts'[c] = <<>> /\ failed'[c] = FALSE
  /\ log'[c] = log[c] /\ answers'[c] = answers[c]
  /\ \/ tok = "blank" /\ mode'[c] = "read"
     \/ tok = "begin" /\ mode'[c] = "batch"
     \/ tok = "garbled" /\ mode'[c] = "gone"
     \/ /\ tok = "stmt" /\ mode'[c] = "exec"
        /\ unit'[c] = [stmts |-> <<rd[c] + 1>>, batch |-> FALSE, last |-> rd[c] + 1,
                       outcome |-> "open"]
     \/ /\ tok \in {"bad", "end"} /\ mode'[c] = "respond"
        /\ unit'[c] = [stmts |-> <<rd[c] + 1>>, batch |-> FALSE, last |-> rd[c] + 1,
                       outcome |-> "error"]

\* A line that means tok is read inside a batch, and does not end it.
Collects(c, tok) ==
  /\ Quiet(c) /\ mode[c] = "batch" /\ rd[c] < sent[c] /\ tok \in Meanings(c, rd[c] + 1)
  /\ tok \notin {"end", "garbled"}
  /\ rd'[c] = rd[c] + 1 /\ mode'[c] = "batch" /\ unit'[c] = unit[c]
  /\ stmts'[c] = IF tok = "stmt" /\ ~failed[c] THEN Append(stmts[c], rd[c] + 1) ELSE stmts[c]
  /\ failed'[c] = (failed[c] \/ tok \in {"bad", "begin"})
  /\ log'[c] = log[c] /\ answers'[c] = answers[c]

\* A batch ends with a line or with the stream.
Ends(c) ==
  /\ Quiet(c) /\ mode[c] = "batch"
  /\ \/ /\ rd[c] < sent[c] /\ rd'[c] = rd[c] + 1
        /\ {"end", "garbled"} \cap Meanings(c, rd[c] + 1) # {}
     \/ closed[c] /\ rd[c] = sent[c] /\ rd'[c] = rd[c]
  /\ mode'[c] = IF failed[c] THEN "respond" ELSE "exec"
  /\ unit'[c] = [stmts |-> stmts[c], batch |-> TRUE, last |-> rd'[c],
                 outcome |-> IF failed[c] THEN "error" ELSE "open"]
  /\ stmts'[c] = stmts[c] /\ failed'[c] = failed[c]
  /\ log'[c] = log[c] /\ answers'[c] = answers[c]

Executes(c) ==
  /\ Quiet(c) /\ mode[c] = "exec" /\ mode'[c] = "respond"
  /\ \E o \in {"ok", "error"} : unit'[c] = [unit[c] EXCEPT !.outcome = o]
  /\ log'[c] = Append(log[c], unit'[c])
  /\ rd'[c] = rd[c] /\ stmts'[c] = stmts[c] /\ failed'[c] = failed[c] /\ answers'[c] = answers[c]

Answers(c) ==
  /\ Quiet(c) /\ mode[c] = "respond" /\ mode'[c] = "read"
  /\ answers'[c] = Append(answers[c], unit[c])
  /\ rd'[c] = rd[c] /\ stmts'[c] = stmts[c] /\ failed'[c] = failed[c] /\ log'[c] = log[c]

Moves(c) ==
  \/ Arrives(c) \/ Turns(c) \/ Ends(c) \/ Executes(c) \/ Answers(c)
  \/ \E tok \in Tokens : Reads(c, tok) \/ Collects(c, tok)

TypeOKThen ==
  /\ sent' \in [Conns -> 0 .. MaxLines]
  /\ torn' \in [Conns -> BOOLEAN]
  /\ closed' \in [Conns -> BOOLEAN]
  /\ mode' \in [Conns -> Modes]
  /\ rd' \in [Conns -> 0 .. MaxLines]
  /\ stmts' \in [Conns -> Seq(Nat)]
  /\ failed' \in [Conns -> BOOLEAN]
  /\ unit' \in [Conns -> Unit \cup {NoUnit}]
  /\ log' \in [Conns -> Seq(Unit)]
  /\ answers' \in [Conns -> Seq(Unit)]

\* The line a task reads is there.
LEMMA NextLine ==
  ASSUME TypeInv, NEW c \in Conns, rd[c] < sent[c]
  PROVE  /\ rd[c] + 1 \in 1 .. Len(script[c]) /\ rd[c] + 1 \in 0 .. MaxLines /\ rd[c] + 1 \in Nat
         /\ Meanings(c, rd[c] + 1) \subseteq Tokens
<1>1. script[c] \in Seq(Tokens) /\ Len(script[c]) \in 0 .. MaxLines
  BY ScriptType DEF TypeInv
<1>2. sent[c] <= Len(script[c]) /\ rd[c] \in 0 .. MaxLines /\ sent[c] \in 0 .. MaxLines
  BY DEF TypeInv, TypeOK, ControlOK
<1>3. rd[c] + 1 \in 1 .. Len(script[c]) /\ rd[c] + 1 \in 0 .. MaxLines /\ rd[c] + 1 \in Nat
  BY <1>1, <1>2, ServerAssumption
<1>4. script[c][rd[c] + 1] \in Tokens
  BY <1>1, <1>3
<1> QED
  BY <1>3, <1>4 DEF Meanings, Tokens

LEMMA SendMoves ==
  ASSUME TypeInv, NEW c \in Conns, Send(c) \/ Close(c)
  PROVE  TypeOKThen /\ Frame(c) /\ Arrives(c)
<1>1. Len(script[c]) \in 0 .. MaxLines
  BY ScriptType DEF TypeInv
<1>2. TypeOK
  BY DEF TypeInv
<1>3. CASE Send(c)
  <2>1. /\ sent' = [sent EXCEPT ![c] = sent[c] + 1] /\ sent[c] < Len(script[c]) /\ ~closed[c]
        /\ UNCHANGED <<script, torn, closed, mode, rd, stmts, failed, unit, log, answers>>
    BY <1>3 DEF Send, task
  <2>2. sent[c] + 1 \in 0 .. MaxLines
    BY <1>1, <1>2, <2>1, ServerAssumption DEF TypeOK
  <2> QED
    BY <1>2, <2>1, <2>2 DEF TypeOK, TypeOKThen, Modes, Frame, Quiet, Still, Arrives
<1>4. CASE Close(c)
  <2>1. /\ closed' = [closed EXCEPT ![c] = TRUE] /\ ~closed[c]
        /\ UNCHANGED <<script, mode, rd, stmts, failed, unit, log, answers>>
    BY <1>4 DEF Close, task
  <2>2. CASE UNCHANGED <<sent, torn>>
    BY <1>2, <2>1, <2>2 DEF TypeOK, TypeOKThen, Modes, Frame, Quiet, Still, Arrives
  <2>3. CASE /\ sent[c] < Len(script[c])
             /\ sent' = [sent EXCEPT ![c] = sent[c] + 1]
             /\ torn' = [torn EXCEPT ![c] = TRUE]
    <3>1. sent[c] + 1 \in 0 .. MaxLines
      BY <1>1, <1>2, <2>3, ServerAssumption DEF TypeOK
    <3> QED
      BY <1>2, <2>1, <2>3, <3>1 DEF TypeOK, TypeOKThen, Modes, Frame, Quiet, Still, Arrives
  <2> QED
    BY <1>4, <2>2, <2>3 DEF Close
<1> QED
  BY <1>3, <1>4

LEMMA TurnMoves ==
  ASSUME TypeInv, NEW c \in Conns, Accept(c) \/ ReadEof(c) \/ WriteError(c) \/ Cancel(c)
  PROVE  TypeOKThen /\ Frame(c) /\ Turns(c)
<1>1. /\ UNCHANGED <<script, sent, torn, closed, rd, stmts, failed, unit, log, answers>>
      /\ \/ mode[c] = "new" /\ mode' = [mode EXCEPT ![c] = "read"]
         \/ mode[c] # "exec" /\ mode' = [mode EXCEPT ![c] = "gone"]
  BY DEF Accept, ReadEof, WriteError, Cancel, client
<1> QED
  BY <1>1 DEF TypeInv, TypeOK, TypeOKThen, Modes, Frame, Quiet, Still, Turns

LEMMA UnitType ==
  ASSUME NEW s \in Seq(Nat), NEW b \in BOOLEAN, NEW n \in Nat, NEW o \in {"open", "ok", "error"}
  PROVE  [stmts |-> s, batch |-> b, last |-> n, outcome |-> o] \in Unit
BY DEF Unit

LEMMA ReadMoves ==
  ASSUME TypeInv, NEW c \in Conns, ReadLine(c)
  PROVE  TypeOKThen /\ Frame(c) /\ \E tok \in Tokens : Reads(c, tok)
<1>1. rd[c] < sent[c] /\ mode[c] = "read"
  BY DEF ReadLine, HasLine
<1>2. /\ rd[c] + 1 \in 0 .. MaxLines /\ rd[c] + 1 \in Nat
      /\ Meanings(c, rd[c] + 1) \subseteq Tokens
  BY <1>1, NextLine
<1>3. /\ rd' = [rd EXCEPT ![c] = rd[c] + 1]
      /\ stmts' = [stmts EXCEPT ![c] = <<>>] /\ failed' = [failed EXCEPT ![c] = FALSE]
      /\ UNCHANGED <<script, sent, torn, closed, log, answers>>
  BY DEF ReadLine, FreshBatch, client
<1>4. rd' \in [Conns -> 0 .. MaxLines] /\ rd'[c] = rd[c] + 1
  BY <1>2, <1>3 DEF TypeInv, TypeOK
<1> DEFINE one(o) == [stmts |-> <<rd[c] + 1>>, batch |-> FALSE, last |-> rd[c] + 1, outcome |-> o]
<1>5. one("open") \in Unit /\ one("error") \in Unit
  <2>1. <<rd[c] + 1>> \in Seq(Nat)
    BY <1>2
  <2> QED
    BY <1>2, <2>1, UnitType
<1>6. OneUnit(c, "open") = one("open") /\ OneUnit(c, "error") = one("error")
  BY <1>4 DEF OneUnit
<1> HIDE DEF one
<1>7. PICK tok \in Meanings(c, rd[c] + 1) :
        /\ mode' = [mode EXCEPT ![c] = CASE tok = "blank" -> "read"
                                         [] tok = "begin" -> "batch"
                                         [] tok = "stmt" -> "exec"
                                         [] tok = "garbled" -> "gone"
                                         [] OTHER -> "respond"]
        /\ unit' = [unit EXCEPT ![c] = CASE tok = "stmt" -> OneUnit(c, "open")
                                         [] tok \in {"bad", "end"} -> OneUnit(c, "error")
                                         [] OTHER -> NoUnit]
  BY DEF ReadLine
<1> DEFINE m == CASE tok = "blank" -> "read" [] tok = "begin" -> "batch" [] tok = "stmt" -> "exec"
                  [] tok = "garbled" -> "gone" [] OTHER -> "respond"
           u == CASE tok = "stmt" -> one("open") [] tok \in {"bad", "end"} -> one("error")
                  [] OTHER -> NoUnit
<1>8. m \in Modes /\ u \in Unit \cup {NoUnit} /\ tok \in Tokens
  BY <1>2, <1>5, <1>7 DEF Modes, Tokens
<1>9. mode' = [mode EXCEPT ![c] = m] /\ unit' = [unit EXCEPT ![c] = u]
  BY <1>6, <1>7
<1>10. \/ tok = "blank" /\ m = "read"
       \/ tok = "begin" /\ m = "batch"
       \/ tok = "garbled" /\ m = "gone"
       \/ tok = "stmt" /\ m = "exec" /\ u = one("open")
       \/ tok \in {"bad", "end"} /\ m = "respond" /\ u = one("error")
  BY <1>8 DEF Tokens
<1> HIDE DEF m, u
<1>11. TypeOKThen
  BY <1>3, <1>4, <1>8, <1>9 DEF TypeInv, TypeOK, TypeOKThen, Modes
<1>12. Frame(c)
  BY <1>3, <1>9 DEF TypeInv, TypeOK, Frame, Quiet, Still
<1>13. mode'[c] = m /\ unit'[c] = u /\ stmts'[c] = <<>> /\ failed'[c] = FALSE
  BY <1>3, <1>9 DEF TypeInv, TypeOK
<1>14. Reads(c, tok)
  BY <1>1, <1>3, <1>4, <1>7, <1>10, <1>13 DEF Reads, Quiet, one
<1> QED
  BY <1>8, <1>11, <1>12, <1>14

LEMMA EndMoves ==
  ASSUME TypeInv, NEW c \in Conns, mode[c] = "batch", EndBatch(c),
         rd' \in [Conns -> 0 .. MaxLines],
         UNCHANGED <<script, sent, torn, closed, log, answers>>,
         \A d \in Conns : d # c => rd'[d] = rd[d],
         \/ /\ rd[c] < sent[c] /\ rd'[c] = rd[c] + 1
            /\ {"end", "garbled"} \cap Meanings(c, rd[c] + 1) # {}
         \/ closed[c] /\ rd[c] = sent[c] /\ rd'[c] = rd[c]
  PROVE  TypeOKThen /\ Frame(c) /\ Ends(c)
<1> DEFINE m == IF failed[c] THEN "respond" ELSE "exec"
           o == IF failed[c] THEN "error" ELSE "open"
           u == [stmts |-> stmts[c], batch |-> TRUE, last |-> rd'[c], outcome |-> o]
<1>1. /\ mode' = [mode EXCEPT ![c] = m] /\ unit' = [unit EXCEPT ![c] = u]
      /\ stmts' = stmts /\ failed' = failed
  BY DEF EndBatch, BatchUnit
<1>2. u \in Unit /\ m \in Modes
  <2>1. stmts[c] \in Seq(Nat) /\ rd'[c] \in Nat /\ o \in {"open", "ok", "error"}
    BY ServerAssumption DEF TypeInv, TypeOK
  <2> HIDE DEF o
  <2>2. u \in Unit
    BY <2>1, UnitType
  <2> QED
    BY <2>2 DEF Modes
<1>3. mode'[c] = m /\ unit'[c] = u
  BY <1>1 DEF TypeInv, TypeOK
<1>4. Ends(c)
  BY <1>1, <1>3 DEF Ends, Quiet
<1> HIDE DEF m, u
<1>5. TypeOKThen
  BY <1>1, <1>2 DEF TypeInv, TypeOK, TypeOKThen, Modes
<1>6. Frame(c)
  BY <1>1 DEF TypeInv, TypeOK, Frame, Quiet, Still
<1> QED
  BY <1>4, <1>5, <1>6

LEMMA BatchMoves ==
  ASSUME TypeInv, NEW c \in Conns, BatchLine(c) \/ BatchEof(c)
  PROVE  TypeOKThen /\ Frame(c) /\ (Ends(c) \/ \E tok \in Tokens : Collects(c, tok))
<1>1. mode[c] = "batch" /\ UNCHANGED <<script, sent, torn, closed, log, answers>>
  BY DEF BatchLine, BatchEof, client
<1>2. CASE BatchEof(c)
  <2>1. EndBatch(c) /\ rd' = rd /\ closed[c] /\ rd[c] = sent[c]
    BY <1>2 DEF BatchEof, AtEof
  <2> QED
    BY <1>1, <2>1, EndMoves DEF TypeInv, TypeOK
<1>3. CASE BatchLine(c)
  <2>1. rd[c] < sent[c] /\ rd' = [rd EXCEPT ![c] = rd[c] + 1]
    BY <1>3 DEF BatchLine, HasLine
  <2>2. /\ rd[c] + 1 \in 0 .. MaxLines /\ rd[c] + 1 \in Nat
        /\ Meanings(c, rd[c] + 1) \subseteq Tokens
    BY <2>1, NextLine
  <2>3. /\ rd' \in [Conns -> 0 .. MaxLines] /\ rd'[c] = rd[c] + 1
        /\ \A d \in Conns : d # c => rd'[d] = rd[d]
    BY <2>1, <2>2 DEF TypeInv, TypeOK
  <2>4. PICK tok \in Meanings(c, rd[c] + 1) :
          IF tok \in {"end", "garbled"} THEN EndBatch(c)
          ELSE Collect(c, tok, rd[c] + 1) /\ UNCHANGED <<mode, unit>>
    BY <1>3 DEF BatchLine
  <2>5. CASE tok \in {"end", "garbled"}
    <3>1. EndBatch(c) /\ {"end", "garbled"} \cap Meanings(c, rd[c] + 1) # {}
      BY <2>4, <2>5
    <3> QED
      BY <1>1, <2>1, <2>3, <3>1, EndMoves
  <2>6. CASE tok \notin {"end", "garbled"}
    <3> DEFINE s == IF tok = "stmt" /\ ~failed[c] THEN Append(stmts[c], rd[c] + 1) ELSE stmts[c]
               f == failed[c] \/ tok \in {"bad", "begin"}
    <3>1. /\ stmts' = [stmts EXCEPT ![c] = s] /\ failed' = [failed EXCEPT ![c] = f]
          /\ mode' = mode /\ unit' = unit
      BY <2>4, <2>6 DEF Collect
    <3>2. s \in Seq(Nat) /\ f \in BOOLEAN
      BY <2>2 DEF TypeInv, TypeOK
    <3>3. stmts'[c] = s /\ failed'[c] = f
      BY <3>1 DEF TypeInv, TypeOK
    <3>4. Collects(c, tok)
      BY <1>1, <2>1, <2>3, <2>4, <2>6, <3>1, <3>3 DEF Collects, Quiet
    <3> HIDE DEF s, f
    <3>5. TypeOKThen
      BY <1>1, <2>3, <3>1, <3>2 DEF TypeInv, TypeOK, TypeOKThen, Modes
    <3>6. Frame(c)
      BY <1>1, <2>3, <3>1 DEF TypeInv, TypeOK, Frame, Quiet, Still
    <3> QED
      BY <2>2, <2>4, <3>4, <3>5, <3>6
  <2> QED
    BY <2>5, <2>6
<1> QED
  BY <1>2, <1>3

LEMMA ExecuteMoves ==
  ASSUME TypeInv, NEW c \in Conns, Execute(c)
  PROVE  TypeOKThen /\ Frame(c) /\ Executes(c)
<1>1. mode[c] = "exec" /\ unit[c] \in Unit
  BY DEF Execute, TypeInv, ControlOK
<1>2. PICK o \in {"ok", "error"} :
        /\ unit' = [unit EXCEPT ![c].outcome = o]
        /\ log' = [log EXCEPT ![c] = Append(log[c], unit'[c])]
  BY DEF Execute
<1>3. /\ mode' = [mode EXCEPT ![c] = "respond"]
      /\ UNCHANGED <<script, sent, torn, closed, rd, stmts, failed, answers>>
  BY DEF Execute, client
<1> DEFINE u == [unit[c] EXCEPT !.outcome = o]
<1>4. u \in Unit
  BY <1>1 DEF Unit
<1>5. unit' = [unit EXCEPT ![c] = u]
  BY <1>2
<1>6. unit'[c] = u /\ mode'[c] = "respond"
  BY <1>3, <1>5 DEF TypeInv, TypeOK
<1> HIDE DEF u
<1>7. log'[c] = Append(log[c], u) /\ Append(log[c], u) \in Seq(Unit)
  BY <1>2, <1>4, <1>6 DEF TypeInv, TypeOK
<1>8. log' = [log EXCEPT ![c] = Append(log[c], u)]
  BY <1>2, <1>6
<1>9. TypeOKThen
  BY <1>3, <1>4, <1>5, <1>7, <1>8 DEF TypeInv, TypeOK, TypeOKThen, Modes
<1>10. Frame(c)
  BY <1>3, <1>5, <1>8 DEF TypeInv, TypeOK, Frame, Quiet, Still
<1>11. Executes(c)
  BY <1>1, <1>3, <1>6, <1>7 DEF Executes, Quiet, u
<1> QED
  BY <1>9, <1>10, <1>11

LEMMA RespondMoves ==
  ASSUME TypeInv, NEW c \in Conns, Respond(c)
  PROVE  TypeOKThen /\ Frame(c) /\ Answers(c)
<1>1. mode[c] = "respond" /\ unit[c] \in Unit
  BY DEF Respond, TypeInv, ControlOK
<1>2. /\ answers' = [answers EXCEPT ![c] = Append(answers[c], unit[c])]
      /\ mode' = [mode EXCEPT ![c] = "read"] /\ unit' = [unit EXCEPT ![c] = NoUnit]
      /\ UNCHANGED <<script, sent, torn, closed, rd, stmts, failed, log>>
  BY DEF Respond, client
<1>3. Append(answers[c], unit[c]) \in Seq(Unit)
  BY <1>1 DEF TypeInv, TypeOK
<1>4. TypeOKThen
  BY <1>2, <1>3 DEF TypeInv, TypeOK, TypeOKThen, Modes
<1>5. Frame(c)
  BY <1>2 DEF TypeInv, TypeOK, Frame, Quiet, Still
<1>6. Answers(c)
  BY <1>1, <1>2 DEF TypeInv, TypeOK, Answers, Quiet
<1> QED
  BY <1>4, <1>5, <1>6

LEMMA AllMoves ==
  ASSUME TypeInv, NEW c \in Conns, Send(c) \/ Close(c) \/ Work(c)
  PROVE  TypeOKThen /\ Frame(c) /\ Moves(c)
BY SendMoves, TurnMoves, ReadMoves, BatchMoves, ExecuteMoves, RespondMoves DEF Work, Moves

LEMMA ControlOKNext ==
  ASSUME TypeInv, TypeOKThen, NEW c \in Conns, Frame(c), Moves(c)
  PROVE  ControlOK'
<1>1. TypeOK /\ ControlOK
  BY DEF TypeInv
<1>2. ASSUME NEW d \in Conns, d # c PROVE Quiet(d) /\ Still(d) /\ script'[d] = script[d]
  BY <1>2 DEF Frame
<1>3. script'[c] = script[c] /\ Len(script[c]) \in Nat /\ sent[c] \in Nat /\ rd[c] \in Nat
  BY <1>1, ScriptType, ServerAssumption DEF Frame, TypeInv, TypeOK
<1> DEFINE ok(d) == /\ sent'[d] <= Len(script'[d]) /\ rd'[d] <= sent'[d]
                    /\ torn'[d] => closed'[d]
                    /\ mode'[d] = "new" => rd'[d] = 0
                    /\ mode'[d] \in {"exec", "respond"} => unit'[d] \in Unit /\ unit'[d].last = rd'[d]
                    /\ mode'[d] = "exec" => unit'[d].outcome = "open"
<1>4. ASSUME NEW d \in Conns, d # c PROVE ok(d)
  BY <1>1, <1>2, <1>4 DEF ControlOK, Quiet, Still
<1>5. ok(c)
  <2>1. CASE Arrives(c)
    BY <1>1, <1>3, <2>1 DEF Arrives, Still, ControlOK
  <2>2. CASE Turns(c)
    BY <1>1, <1>3, <2>2 DEF Turns, Quiet, ControlOK
  <2>3. CASE Ends(c)
    <3>1. unit'[c] \in Unit
      <4>1. stmts[c] \in Seq(Nat) /\ rd'[c] \in Nat
        BY ServerAssumption DEF TypeOKThen, TypeInv, TypeOK
      <4> QED
        BY <2>3, <4>1, UnitType DEF Ends
    <3> QED
      BY <1>1, <1>3, <2>3, <3>1 DEF Ends, Quiet, ControlOK
  <2>4. CASE Executes(c)
    <3>1. unit[c] \in Unit /\ unit[c].last = rd[c]
      BY <1>1, <2>4 DEF Executes, ControlOK
    <3>2. unit'[c] \in Unit /\ unit'[c].last = rd[c]
      BY <2>4, <3>1 DEF Executes, Unit
    <3> QED
      BY <1>1, <1>3, <2>4, <3>2 DEF Executes, Quiet, ControlOK
  <2>5. CASE Answers(c)
    BY <1>1, <1>3, <2>5 DEF Answers, Quiet, ControlOK
  <2>6. ASSUME NEW tok \in Tokens, Reads(c, tok) PROVE ok(c)
    <3>1. <<rd[c] + 1>> \in Seq(Nat) /\ rd[c] + 1 \in Nat /\ rd[c] + 1 <= sent[c]
      BY <1>3, <2>6 DEF Reads
    <3>2. mode'[c] \in {"exec", "respond"} => unit'[c] \in Unit /\ unit'[c].last = rd[c] + 1
      <4> DEFINE one(o) == [stmts |-> <<rd[c] + 1>>, batch |-> FALSE, last |-> rd[c] + 1,
                            outcome |-> o]
      <4>1. one("open") \in Unit /\ one("error") \in Unit
        BY <3>1, UnitType
      <4>2. one("open").last = rd[c] + 1 /\ one("error").last = rd[c] + 1
        OBVIOUS
      <4>3. mode'[c] \in {"exec", "respond"} => unit'[c] \in {one("open"), one("error")}
        BY <2>6 DEF Reads
      <4> HIDE DEF one
      <4> QED
        BY <4>1, <4>2, <4>3
    <3>3. mode'[c] # "new" /\ (mode'[c] = "exec" => unit'[c].outcome = "open")
      BY <2>6 DEF Reads
    <3>4. rd'[c] = rd[c] + 1 /\ Quiet(c)
      BY <2>6 DEF Reads
    <3> QED
      BY <1>1, <1>3, <3>1, <3>2, <3>3, <3>4 DEF Quiet, ControlOK
  <2>7. ASSUME NEW tok \in Tokens, Collects(c, tok) PROVE ok(c)
    BY <1>1, <1>3, <2>7 DEF Collects, Quiet, ControlOK
  <2> QED
    BY <2>1, <2>2, <2>3, <2>4, <2>5, <2>6, <2>7 DEF Moves
<1>6. \A d \in Conns : ok(d)
  BY <1>4, <1>5
<1> QED
  BY <1>6 DEF ControlOK

LEMMA TypeInvInit == Init => TypeInv
<1> SUFFICES ASSUME Init PROVE TypeInv
  OBVIOUS
<1>1. TypeOK
  BY ServerAssumption DEF Init, TypeOK
<1>2. ControlOK
  BY ScriptType DEF Init, ControlOK
<1> QED
  BY <1>1, <1>2 DEF TypeInv, Init

LEMMA TypeInvNext == TypeInv /\ [Next]_vars => TypeInv'
<1> SUFFICES ASSUME TypeInv, [Next]_vars PROVE TypeInv'
  OBVIOUS
<1>1. CASE UNCHANGED <<client, task>>
  BY <1>1 DEF client, task, TypeInv, TypeOK, ControlOK
<1>2. ASSUME NEW c \in Conns, Send(c) \/ Close(c) \/ Work(c) PROVE TypeInv'
  <2>1. TypeOKThen /\ Frame(c) /\ Moves(c)
    BY <1>2, AllMoves
  <2>2. ControlOK'
    BY <2>1, ControlOKNext
  <2> QED
    BY <2>1, <2>2 DEF TypeInv, TypeOK, TypeOKThen, Modes, Frame
<1> QED
  BY <1>1, <1>2 DEF Next, Shutdown, vars

\* Every variable of every connection stays in its domain, for scripts of any
\* length: no task reads past what was sent, and an executing or answering task
\* has a unit to execute or to answer.
THEOREM TypeCorrect == Spec => []TypeOK
<1>1. TypeInv => TypeOK
  BY DEF TypeInv
<1> QED
  BY <1>1, TypeInvInit, TypeInvNext, PTL DEF Spec

-----------------------------------------------------------------------------
(* Sequences of units *)

LEMMA AppendUnit ==
  ASSUME NEW q \in Seq(Unit), NEW u \in Unit
  PROVE  /\ DOMAIN Append(q, u) = 1 .. Len(q) + 1 /\ DOMAIN q = 1 .. Len(q) /\ Len(q) \in Nat
         /\ Len(Append(q, u)) = Len(q) + 1
         /\ \A i \in 1 .. Len(q) : Append(q, u)[i] = q[i]
         /\ Append(q, u)[Len(q) + 1] = u
         /\ Append(q, u) # <<>> /\ Append(q, u) \in Seq(Unit)
BY AppendProperties, LenProperties

LEMMA UnitFields ==
  ASSUME NEW q \in Seq(Unit), NEW i \in DOMAIN q
  PROVE  q[i] \in Unit /\ q[i].last \in Nat /\ q[i].stmts \in Seq(Nat)
<1>1. q[i] \in Unit
  BY LenProperties, ElementOfSeq
<1> QED
  BY <1>1 DEF Unit

LEMMA BelowMore ==
  ASSUME NEW q \in Seq(Unit), NEW m \in Nat, NEW n \in Nat, Below(q, m), m <= n
  PROVE  Below(q, n)
BY UnitFields DEF Below

LEMMA BelowAppend ==
  ASSUME NEW q \in Seq(Unit), NEW u \in Unit, NEW n \in Nat, Below(q, n), u.last < n
  PROVE  Below(Append(q, u), n)
<1> SUFFICES ASSUME NEW i \in 1 .. Len(q) + 1 PROVE Append(q, u)[i].last < n
  BY AppendUnit DEF Below
<1>1. CASE i = Len(q) + 1
  BY <1>1, AppendUnit
<1>2. CASE i # Len(q) + 1
  <2>1. i \in DOMAIN q /\ Append(q, u)[i] = q[i]
    BY <1>2, AppendUnit
  <2> QED
    BY <2>1 DEF Below
<1> QED
  BY <1>1, <1>2

LEMMA RisingAppend ==
  ASSUME NEW q \in Seq(Unit), NEW u \in Unit, Rising(q), Below(q, u.last)
  PROVE  Rising(Append(q, u))
<1> SUFFICES ASSUME NEW i \in 1 .. Len(q) + 1, NEW j \in 1 .. Len(q) + 1, i < j
             PROVE  Append(q, u)[i].last < Append(q, u)[j].last
  BY AppendUnit DEF Rising
<1>1. i \in DOMAIN q /\ Append(q, u)[i] = q[i]
  BY AppendUnit
<1>2. CASE j = Len(q) + 1
  BY <1>1, <1>2, AppendUnit DEF Below
<1>3. CASE j # Len(q) + 1
  <2>1. j \in DOMAIN q /\ Append(q, u)[j] = q[j]
    BY <1>3, AppendUnit
  <2> QED
    BY <1>1, <2>1 DEF Rising
<1> QED
  BY <1>2, <1>3

-----------------------------------------------------------------------------
(* Answers *)

\* Executing a unit puts it, with its outcome, at the end of the log.
LEMMA ExecuteAnswers ==
  ASSUME NEW lg \in Seq(Unit), NEW an \in Seq(Unit), NEW u \in Unit, NEW v \in Unit,
         NEW r \in Nat, u.last = r, v.last = r, AnswersOK("exec", r, u, lg, an)
  PROVE  AnswersOK("respond", r, v, Append(lg, v), an)
<1>1. /\ Rising(lg) /\ Rising(an) /\ Truthful(lg, an) /\ Told(lg, an, Len(lg))
      /\ Below(lg, r) /\ Below(an, r) /\ Below(an, r + 1) /\ Below(lg, r + 1)
  BY DEF AnswersOK
<1>2. Rising(Append(lg, v)) /\ Below(Append(lg, v), r + 1)
  BY <1>1, RisingAppend, BelowAppend
<1>3. /\ DOMAIN Append(lg, v) = 1 .. Len(lg) + 1 /\ DOMAIN lg = 1 .. Len(lg) /\ Len(lg) \in Nat
      /\ Len(Append(lg, v)) = Len(lg) + 1
      /\ \A i \in 1 .. Len(lg) : Append(lg, v)[i] = lg[i]
      /\ Append(lg, v)[Len(lg) + 1] = v /\ Append(lg, v) # <<>>
  BY AppendUnit
<1> DEFINE lg2 == Append(lg, v)
<1> HIDE DEF lg2
<1>4. Truthful(lg2, an)
  <2>1. ASSUME NEW i \in DOMAIN lg2, NEW j \in DOMAIN an, an[j].last = lg2[i].last
        PROVE  an[j] = lg2[i]
    <3>1. an[j].last < r /\ an[j].last \in Nat
      BY <1>1, UnitFields DEF Below
    <3>2. i # Len(lg) + 1
      BY <1>3, <2>1, <3>1 DEF lg2
    <3>3. i \in DOMAIN lg /\ lg2[i] = lg[i]
      BY <1>3, <3>2 DEF lg2
    <3> QED
      BY <1>1, <2>1, <3>3 DEF Truthful
  <2>2. ASSUME NEW j \in DOMAIN an, an[j].outcome = "ok" PROVE \E i \in DOMAIN lg2 : lg2[i] = an[j]
    <3>1. PICK i \in DOMAIN lg : lg[i] = an[j]
      BY <1>1, <2>2 DEF Truthful
    <3>2. i \in DOMAIN lg2 /\ lg2[i] = lg[i]
      BY <1>3 DEF lg2
    <3> QED
      BY <3>1, <3>2
  <2> QED
    BY <2>1, <2>2 DEF Truthful
<1>5. Told(lg2, an, Len(lg2) - 1)
  <2> SUFFICES ASSUME NEW i \in DOMAIN lg2, i <= Len(lg2) - 1 PROVE \E j \in DOMAIN an : an[j] = lg2[i]
    BY DEF Told
  <2>1. i \in DOMAIN lg /\ i <= Len(lg) /\ lg2[i] = lg[i]
    BY <1>3 DEF lg2
  <2> QED
    BY <1>1, <2>1 DEF Told
<1>6. lg2 # <<>> /\ v = lg2[Len(lg2)]
  BY <1>3 DEF lg2
<1> QED
  BY <1>1, <1>2, <1>4, <1>5, <1>6 DEF AnswersOK, lg2

\* Answering the last unit leaves nothing in doubt.
LEMMA RespondAnswers ==
  ASSUME NEW lg \in Seq(Unit), NEW an \in Seq(Unit), NEW u \in Unit, NEW r \in Nat, u.last = r,
         AnswersOK("respond", r, u, lg, an), NEW w
  PROVE  AnswersOK("read", r, w, lg, Append(an, u))
<1>1. /\ Rising(lg) /\ Rising(an) /\ Truthful(lg, an) /\ Told(lg, an, Len(lg) - 1)
      /\ Below(an, r) /\ Below(an, r + 1) /\ Below(lg, r + 1)
      /\ \/ u.outcome = "error" /\ Below(lg, r) /\ Told(lg, an, Len(lg))
         \/ lg # <<>> /\ u = lg[Len(lg)]
  BY DEF AnswersOK
<1>2. Rising(Append(an, u)) /\ Below(Append(an, u), r + 1)
  BY <1>1, RisingAppend, BelowAppend
<1>3. /\ DOMAIN Append(an, u) = 1 .. Len(an) + 1 /\ DOMAIN an = 1 .. Len(an) /\ Len(an) \in Nat
      /\ \A i \in 1 .. Len(an) : Append(an, u)[i] = an[i]
      /\ Append(an, u)[Len(an) + 1] = u
  BY AppendUnit
<1> DEFINE an2 == Append(an, u)
<1> HIDE DEF an2
<1>4. DOMAIN lg = 1 .. Len(lg) /\ Len(lg) \in Nat
  BY LenProperties
<1>5. CASE lg # <<>> /\ u = lg[Len(lg)]
  <2>0. Len(lg) \in DOMAIN lg
    BY <1>4, <1>5, EmptySeq
  <2>1. ASSUME NEW i \in DOMAIN lg, lg[i].last = u.last PROVE lg[i] = u
    <3>1. i = Len(lg) \/ i < Len(lg)
      BY <1>4
    <3>2. i < Len(lg) => lg[i].last < lg[Len(lg)].last
      BY <1>1, <2>0 DEF Rising
    <3>3. lg[i].last \in Nat /\ u.last \in Nat
      BY UnitFields DEF Unit
    <3> QED
      BY <1>5, <2>1, <3>1, <3>2, <3>3
  <2>2. Truthful(lg, an2)
    <3>1. ASSUME NEW i \in DOMAIN lg, NEW j \in DOMAIN an2, an2[j].last = lg[i].last
          PROVE  an2[j] = lg[i]
      <4>1. CASE j = Len(an) + 1
        BY <1>3, <2>1, <3>1, <4>1 DEF an2
      <4>2. CASE j # Len(an) + 1
        <5>1. j \in DOMAIN an /\ an2[j] = an[j]
          BY <1>3, <4>2 DEF an2
        <5> QED
          BY <1>1, <3>1, <5>1 DEF Truthful
      <4> QED
        BY <4>1, <4>2
    <3>2. ASSUME NEW j \in DOMAIN an2, an2[j].outcome = "ok" PROVE \E i \in DOMAIN lg : lg[i] = an2[j]
      <4>1. CASE j = Len(an) + 1
        BY <1>3, <1>5, <2>0, <4>1 DEF an2
      <4>2. CASE j # Len(an) + 1
        <5>1. j \in DOMAIN an /\ an2[j] = an[j]
          BY <1>3, <4>2 DEF an2
        <5> QED
          BY <1>1, <3>2, <5>1 DEF Truthful
      <4> QED
        BY <4>1, <4>2
    <3> QED
      BY <3>1, <3>2 DEF Truthful
  <2>3. ASSUME NEW i \in DOMAIN lg PROVE \E j \in DOMAIN an2 : an2[j] = lg[i]
    <3>1. CASE i = Len(lg)
      <4>1. Len(an) + 1 \in DOMAIN an2 /\ an2[Len(an) + 1] = u
        BY <1>3 DEF an2
      <4> QED
        BY <1>5, <3>1, <4>1
    <3>2. CASE i # Len(lg)
      <4>1. i <= Len(lg) - 1
        BY <1>4, <3>2
      <4>2. PICK j \in DOMAIN an : an[j] = lg[i]
        BY <1>1, <4>1 DEF Told
      <4>3. j \in DOMAIN an2 /\ an2[j] = an[j]
        BY <1>3 DEF an2
      <4> QED
        BY <4>2, <4>3
    <3> QED
      BY <3>1, <3>2
  <2>4. Told(lg, an2, Len(lg)) /\ Told(lg, an2, Len(lg) - 1)
    BY <2>3 DEF Told
  <2> QED
    BY <1>1, <1>2, <2>2, <2>4 DEF AnswersOK, an2
<1>6. CASE u.outcome = "error" /\ Below(lg, r) /\ Told(lg, an, Len(lg))
  <2>1. Truthful(lg, an2)
    <3>1. ASSUME NEW i \in DOMAIN lg, NEW j \in DOMAIN an2, an2[j].last = lg[i].last
          PROVE  an2[j] = lg[i]
      <4>1. lg[i].last < r /\ lg[i].last \in Nat
        BY <1>6, UnitFields DEF Below
      <4>2. j # Len(an) + 1
        BY <1>3, <3>1, <4>1 DEF an2
      <4>3. j \in DOMAIN an /\ an2[j] = an[j]
        BY <1>3, <4>2 DEF an2
      <4> QED
        BY <1>1, <3>1, <4>3 DEF Truthful
    <3>2. ASSUME NEW j \in DOMAIN an2, an2[j].outcome = "ok" PROVE \E i \in DOMAIN lg : lg[i] = an2[j]
      <4>1. j # Len(an) + 1
        BY <1>3, <1>6, <3>2 DEF an2
      <4>2. j \in DOMAIN an /\ an2[j] = an[j]
        BY <1>3, <4>1 DEF an2
      <4> QED
        BY <1>1, <3>2, <4>2 DEF Truthful
    <3> QED
      BY <3>1, <3>2 DEF Truthful
  <2>2. ASSUME NEW i \in DOMAIN lg PROVE \E j \in DOMAIN an2 : an2[j] = lg[i]
    <3>1. PICK j \in DOMAIN an : an[j] = lg[i]
      BY <1>4, <1>6 DEF Told
    <3>2. j \in DOMAIN an2 /\ an2[j] = an[j]
      BY <1>3 DEF an2
    <3> QED
      BY <3>1, <3>2
  <2>3. Told(lg, an2, Len(lg)) /\ Told(lg, an2, Len(lg) - 1)
    BY <2>2 DEF Told
  <2> QED
    BY <1>1, <1>2, <2>1, <2>3 DEF AnswersOK, an2
<1> QED
  BY <1>1, <1>5, <1>6

\* A line is read: what was executed and answered ends before it.
LEMMA ReadAnswers ==
  ASSUME NEW lg \in Seq(Unit), NEW an \in Seq(Unit), NEW r \in Nat, NEW m, NEW u, NEW n, NEW v,
         m \in {"read", "batch"}, AnswersOK(m, r, u, lg, an),
         n \in {"read", "batch", "gone"} \/ (n \in {"exec", "respond"} /\ v.last = r + 1),
         n = "respond" => v.outcome = "error"
  PROVE  AnswersOK(n, r + 1, v, lg, an)
<1>1. /\ Rising(lg) /\ Rising(an) /\ Truthful(lg, an) /\ Told(lg, an, Len(lg) - 1)
      /\ Below(lg, r + 1) /\ Below(an, r + 1) /\ Told(lg, an, Len(lg))
  BY DEF AnswersOK
<1>2. Below(lg, (r + 1) + 1) /\ Below(an, (r + 1) + 1)
  BY <1>1, BelowMore
<1> QED
  BY <1>1, <1>2 DEF AnswersOK

\* The stream ends inside a batch.
LEMMA EofAnswers ==
  ASSUME NEW lg \in Seq(Unit), NEW an \in Seq(Unit), NEW r \in Nat, NEW u, NEW n, NEW v,
         AnswersOK("batch", r, u, lg, an), n \in {"exec", "respond"}, v.last = r,
         n = "respond" => v.outcome = "error"
  PROVE  AnswersOK(n, r, v, lg, an)
BY DEF AnswersOK

\* Going away leaves at most the last unit in doubt.
LEMMA TurnAnswers ==
  ASSUME NEW lg, NEW an, NEW r, NEW m, NEW u, NEW n, AnswersOK(m, r, u, lg, an),
         (m = "new" /\ n = "read") \/ n = "gone"
  PROVE  AnswersOK(n, r, u, lg, an)
BY DEF AnswersOK

\* Every step keeps the answers of its connection in order.
LEMMA AnswersNext ==
  ASSUME TypeInv, TypeOKThen, NEW c \in Conns, Moves(c),
         AnswersOK(mode[c], rd[c], unit[c], log[c], answers[c])
  PROVE  AnswersOK(mode'[c], rd'[c], unit'[c], log'[c], answers'[c])
<1>1. log[c] \in Seq(Unit) /\ answers[c] \in Seq(Unit) /\ rd[c] \in Nat
  BY ServerAssumption DEF TypeInv, TypeOK
<1>2. CASE Arrives(c)
  BY <1>2 DEF Arrives, Still
<1>3. CASE Turns(c)
  BY <1>3, TurnAnswers DEF Turns
<1>4. CASE Ends(c)
  <2>1. /\ mode[c] = "batch" /\ log'[c] = log[c] /\ answers'[c] = answers[c]
        /\ unit'[c].last = rd'[c] /\ mode'[c] \in {"exec", "respond"}
        /\ mode'[c] = "respond" => unit'[c].outcome = "error"
    BY <1>4 DEF Ends
  <2>2. CASE rd'[c] = rd[c]
    BY <1>1, <2>1, <2>2, EofAnswers
  <2>3. CASE rd'[c] = rd[c] + 1
    BY <1>1, <2>1, <2>3, ReadAnswers
  <2> QED
    BY <1>4, <2>2, <2>3 DEF Ends
<1>5. CASE Executes(c)
  <2>1. unit[c] \in Unit /\ unit[c].last = rd[c] /\ mode[c] = "exec"
    BY <1>5 DEF Executes, TypeInv, ControlOK
  <2>2. unit'[c] \in Unit /\ unit'[c].last = rd[c]
    BY <1>5, <2>1 DEF Executes, Unit
  <2>3. mode'[c] = "respond" /\ rd'[c] = rd[c] /\ log'[c] = Append(log[c], unit'[c])
        /\ answers'[c] = answers[c]
    BY <1>5 DEF Executes
  <2> QED
    BY <1>1, <2>1, <2>2, <2>3, ExecuteAnswers
<1>6. CASE Answers(c)
  <2>1. unit[c] \in Unit /\ unit[c].last = rd[c] /\ mode[c] = "respond"
    BY <1>6 DEF Answers, TypeInv, ControlOK
  <2> QED
    BY <1>1, <1>6, <2>1, RespondAnswers DEF Answers
<1>7. ASSUME NEW tok \in Tokens, Reads(c, tok)
      PROVE  AnswersOK(mode'[c], rd'[c], unit'[c], log'[c], answers'[c])
  <2>1. /\ mode[c] = "read" /\ rd'[c] = rd[c] + 1 /\ log'[c] = log[c] /\ answers'[c] = answers[c]
        /\ \/ mode'[c] \in {"read", "batch", "gone"}
           \/ mode'[c] \in {"exec", "respond"} /\ unit'[c].last = rd[c] + 1
        /\ mode'[c] = "respond" => unit'[c].outcome = "error"
    BY <1>7 DEF Reads
  <2> QED
    BY <1>1, <2>1, ReadAnswers
<1>8. ASSUME NEW tok \in Tokens, Collects(c, tok)
      PROVE  AnswersOK(mode'[c], rd'[c], unit'[c], log'[c], answers'[c])
  <2>1. /\ mode[c] = "batch" /\ rd'[c] = rd[c] + 1 /\ log'[c] = log[c] /\ answers'[c] = answers[c]
        /\ mode'[c] = "batch"
    BY <1>8 DEF Collects
  <2> QED
    BY <1>1, <2>1, ReadAnswers
<1> QED
  BY <1>2, <1>3, <1>4, <1>5, <1>6, <1>7, <1>8 DEF Moves

-----------------------------------------------------------------------------
(* Order *)

LEMMA LinesAppend ==
  ASSUME NEW s \in Seq(Nat), NEW r \in Nat, NEW lg \in Seq(Unit), Lines(s, r, lg), Below(lg, r + 1)
  PROVE  Lines(s, r + 1, lg) /\ Lines(Append(s, r + 1), r + 1, lg)
<1>1. DOMAIN s = 1 .. Len(s) /\ Len(s) \in Nat /\ \A k \in DOMAIN s : s[k] \in Nat
  BY LenProperties, ElementOfSeq
<1>2. /\ DOMAIN Append(s, r + 1) = 1 .. Len(s) + 1
      /\ \A k \in 1 .. Len(s) : Append(s, r + 1)[k] = s[k]
      /\ Append(s, r + 1)[Len(s) + 1] = r + 1
  BY AppendProperties, LenProperties
<1> DEFINE t == Append(s, r + 1)
<1> HIDE DEF t
<1>3. Lines(s, r + 1, lg)
  BY <1>1 DEF Lines
<1>4. ASSUME NEW k \in DOMAIN t PROVE (k \in DOMAIN s /\ t[k] = s[k]) \/ (k = Len(s) + 1 /\ t[k] = r + 1)
  BY <1>1, <1>2 DEF t
<1>5. ASSUME NEW k \in DOMAIN t, NEW l \in DOMAIN t, k < l PROVE t[k] < t[l]
  <2>1. k \in DOMAIN s /\ t[k] = s[k]
    BY <1>1, <1>2, <1>4, <1>5 DEF t
  <2>2. CASE l = Len(s) + 1 /\ t[l] = r + 1
    BY <1>1, <2>1, <2>2 DEF Lines
  <2>3. CASE l \in DOMAIN s /\ t[l] = s[l]
    BY <1>5, <2>1, <2>3 DEF Lines
  <2> QED
    BY <1>4, <2>2, <2>3
<1>6. ASSUME NEW k \in DOMAIN t PROVE t[k] <= r + 1
  BY <1>1, <1>4 DEF Lines
<1>7. ASSUME NEW i \in DOMAIN lg, NEW k \in DOMAIN t PROVE lg[i].last < t[k]
  BY <1>4 DEF Lines, Below
<1>8. Lines(t, r + 1, lg)
  BY <1>5, <1>6, <1>7 DEF Lines
<1> QED
  BY <1>3, <1>8 DEF t

LEMMA LinesStart ==
  ASSUME NEW r \in Nat, NEW lg, Below(lg, r)
  PROVE  Lines(<<>>, r, lg) /\ Lines(<<r>>, r, lg)
<1>1. DOMAIN <<>> = {} /\ DOMAIN <<r>> = {1} /\ <<r>>[1] = r
  OBVIOUS
<1> QED
  BY <1>1 DEF Lines, Below

\* A unit that is executed continues the log.
LEMMA ExecuteOrder ==
  ASSUME NEW lg \in Seq(Unit), NEW u \in Unit, NEW v \in Unit, NEW r, NEW s,
         v.stmts = u.stmts, v.last = u.last, OrderOK("exec", r, s, u, lg)
  PROVE  OrderOK("respond", r, s, v, Append(lg, v))
<1>1. /\ DOMAIN Append(lg, v) = 1 .. Len(lg) + 1 /\ DOMAIN lg = 1 .. Len(lg) /\ Len(lg) \in Nat
      /\ \A i \in 1 .. Len(lg) : Append(lg, v)[i] = lg[i]
      /\ Append(lg, v)[Len(lg) + 1] = v
  BY AppendUnit
<1> DEFINE lg2 == Append(lg, v)
<1> HIDE DEF lg2
<1>2. Lines(v.stmts, v.last, lg)
  BY DEF OrderOK
<1>3. ASSUME NEW i \in DOMAIN lg2
      PROVE  /\ \A k, l \in DOMAIN lg2[i].stmts : k < l => lg2[i].stmts[k] < lg2[i].stmts[l]
             /\ \A k \in DOMAIN lg2[i].stmts : lg2[i].stmts[k] <= lg2[i].last
             /\ \A j \in DOMAIN lg2 : i < j =>
                  \A l \in DOMAIN lg2[j].stmts : lg2[i].last < lg2[j].stmts[l]
  <2>1. CASE i = Len(lg) + 1
    <3>1. lg2[i] = v /\ \A j \in DOMAIN lg2 : ~(i < j)
      BY <1>1, <2>1 DEF lg2
    <3> QED
      BY <1>2, <3>1 DEF Lines
  <2>2. CASE i # Len(lg) + 1
    <3>1. i \in DOMAIN lg /\ lg2[i] = lg[i]
      BY <1>1, <2>2 DEF lg2
    <3>2. ASSUME NEW j \in DOMAIN lg2, i < j, NEW l \in DOMAIN lg2[j].stmts
          PROVE  lg[i].last < lg2[j].stmts[l]
      <4>1. CASE j = Len(lg) + 1
        <5>1. lg2[j] = v
          BY <1>1, <4>1 DEF lg2
        <5> QED
          BY <1>2, <3>1, <3>2, <5>1 DEF Lines
      <4>2. CASE j # Len(lg) + 1
        <5>1. j \in DOMAIN lg /\ lg2[j] = lg[j]
          BY <1>1, <4>2 DEF lg2
        <5> QED
          BY <3>1, <3>2, <5>1 DEF OrderOK
      <4> QED
        BY <4>1, <4>2
    <3> QED
      BY <3>1, <3>2 DEF OrderOK
  <2> QED
    BY <2>1, <2>2
<1> QED
  BY <1>3 DEF OrderOK, lg2

\* Every step of a connection keeps its log in the order of the lines.
LEMMA OrderNext ==
  ASSUME TypeInv, TypeOKThen, NEW c \in Conns, Moves(c),
         AnswersOK(mode[c], rd[c], unit[c], log[c], answers[c]),
         OrderOK(mode[c], rd[c], stmts[c], unit[c], log[c])
  PROVE  OrderOK(mode'[c], rd'[c], stmts'[c], unit'[c], log'[c])
<1>1. log[c] \in Seq(Unit) /\ stmts[c] \in Seq(Nat) /\ rd[c] \in Nat /\ Below(log[c], rd[c] + 1)
  BY ServerAssumption DEF TypeInv, TypeOK, AnswersOK
<1>2. CASE Arrives(c)
  BY <1>2 DEF Arrives, Still
<1>3. CASE Turns(c)
  BY <1>3 DEF Turns, OrderOK
<1>4. CASE Ends(c)
  <2>1. Lines(stmts[c], rd[c], log[c]) /\ Lines(stmts[c], rd[c] + 1, log[c])
    BY <1>1, <1>4, LinesAppend DEF Ends, OrderOK
  <2>2. unit'[c].stmts = stmts[c] /\ unit'[c].last = rd'[c] /\ rd'[c] \in {rd[c], rd[c] + 1}
    BY <1>4 DEF Ends
  <2>3. Lines(unit'[c].stmts, unit'[c].last, log[c])
    BY <2>1, <2>2
  <2>4. mode'[c] # "batch" /\ log'[c] = log[c]
    BY <1>4 DEF Ends
  <2> QED
    BY <2>3, <2>4 DEF OrderOK
<1>5. CASE Executes(c)
  <2>1. unit[c] \in Unit
    BY <1>5 DEF Executes, TypeInv, ControlOK
  <2>2. unit'[c] \in Unit /\ unit'[c].last = unit[c].last /\ unit'[c].stmts = unit[c].stmts
    BY <1>5, <2>1 DEF Executes, Unit
  <2>3. /\ mode[c] = "exec" /\ mode'[c] = "respond" /\ log'[c] = Append(log[c], unit'[c])
    BY <1>5 DEF Executes
  <2>4. OrderOK("respond", rd[c], stmts[c], unit'[c], Append(log[c], unit'[c]))
    BY <1>1, <2>1, <2>2, <2>3, ExecuteOrder
  <2> QED
    BY <2>3, <2>4 DEF OrderOK
<1>6. CASE Answers(c)
  BY <1>6 DEF Answers, OrderOK
<1>7. ASSUME NEW tok \in Tokens, Reads(c, tok)
      PROVE  OrderOK(mode'[c], rd'[c], stmts'[c], unit'[c], log'[c])
  <2>1. /\ rd'[c] = rd[c] + 1 /\ stmts'[c] = <<>> /\ log'[c] = log[c]
        /\ mode'[c] = "exec" => unit'[c].stmts = <<rd[c] + 1>> /\ unit'[c].last = rd[c] + 1
    BY <1>7 DEF Reads
  <2>2. Lines(<<>>, rd[c] + 1, log[c]) /\ Lines(<<rd[c] + 1>>, rd[c] + 1, log[c])
    BY <1>1, LinesStart
  <2> QED
    BY <2>1, <2>2 DEF OrderOK
<1>8. ASSUME NEW tok \in Tokens, Collects(c, tok)
      PROVE  OrderOK(mode'[c], rd'[c], stmts'[c], unit'[c], log'[c])
  <2>1. /\ mode[c] = "batch" /\ mode'[c] = "batch" /\ rd'[c] = rd[c] + 1 /\ log'[c] = log[c]
        /\ stmts'[c] \in {stmts[c], Append(stmts[c], rd[c] + 1)}
    BY <1>8 DEF Collects
  <2>2. Lines(stmts'[c], rd[c] + 1, log[c])
    BY <1>1, <2>1, LinesAppend DEF OrderOK
  <2> QED
    BY <2>1, <2>2 DEF OrderOK
<1> QED
  BY <1>2, <1>3, <1>4, <1>5, <1>6, <1>7, <1>8 DEF Moves

-----------------------------------------------------------------------------
(* Batches *)

\* What arrives later does not change what was whole.
LEMMA WholeLater ==
  ASSUME NEW scr, NEW sn, NEW tn, NEW cl, NEW u, Whole(scr, sn, tn, cl, u), ~tn, ~cl,
         NEW sn2, NEW tn2, NEW cl2
  PROVE  Whole(scr, sn2, tn2, cl2, u)
BY DEF Whole

LEMMA BatchLater ==
  ASSUME NEW scr, NEW sn, NEW tn, NEW cl, NEW m, NEW r, NEW s, NEW fl, NEW u, NEW lg,
         BatchOK(scr, sn, tn, cl, m, r, s, fl, u, lg), ~tn, ~cl, NEW sn2, NEW tn2, NEW cl2
  PROVE  BatchOK(scr, sn2, tn2, cl2, m, r, s, fl, u, lg)
<1>1. \A i \in DOMAIN lg : Whole(scr, sn2, tn2, cl2, lg[i])
  BY WholeLater DEF BatchOK
<1>2. m = "exec" => Whole(scr, sn2, tn2, cl2, u)
  BY WholeLater DEF BatchOK
<1>3. ASSUME NEW b, Gapless(scr, sn, tn, s, b, r) PROVE Gapless(scr, sn2, tn2, s, b, r)
  BY <1>3 DEF Gapless
<1> QED
  BY <1>1, <1>2, <1>3 DEF BatchOK

\* What a line can mean.
LEMMA MeaningOf ==
  ASSUME TypeInv, NEW c \in Conns, NEW n, NEW tok \in Meanings(c, n)
  PROVE  /\ tok = script[c][n] \/ (torn[c] /\ closed[c] /\ n = sent[c])
         /\ tok \in {"begin", "end"} => tok = script[c][n]
BY DEF Meanings, TypeInv, ControlOK

\* A line more is collected.
LEMMA GaplessMore ==
  ASSUME NEW scr, NEW sn, NEW tn, NEW s \in Seq(Nat), NEW b \in Nat, NEW r \in Nat,
         Gapless(scr, sn, tn, s, b, r)
  PROVE  /\ Gapless(scr, sn, tn, Append(s, r + 1), b, r + 1)
         /\ scr[r + 1] = "blank" \/ (tn /\ r + 1 = sn) => Gapless(scr, sn, tn, s, b, r + 1)
<1>1. /\ DOMAIN Append(s, r + 1) = 1 .. Len(s) + 1 /\ DOMAIN s = 1 .. Len(s) /\ Len(s) \in Nat
      /\ \A k \in 1 .. Len(s) : Append(s, r + 1)[k] = s[k]
      /\ Append(s, r + 1)[Len(s) + 1] = r + 1
  BY AppendProperties, LenProperties
<1> DEFINE t == Append(s, r + 1)
<1> HIDE DEF t
<1>2. ASSUME NEW n \in b + 1 .. r + 1, n # r + 1
      PROVE  (\E k \in DOMAIN s : s[k] = n) \/ scr[n] = "blank" \/ (tn /\ n = sn)
  <2>1. n \in b + 1 .. r
    BY <1>2
  <2> QED
    BY <2>1 DEF Gapless
<1>3. ASSUME NEW n \in b + 1 .. r + 1
      PROVE  (\E k \in DOMAIN t : t[k] = n) \/ scr[n] = "blank" \/ (tn /\ n = sn)
  <2>1. CASE n = r + 1
    <3>1. Len(s) + 1 \in DOMAIN t /\ t[Len(s) + 1] = r + 1
      BY <1>1 DEF t
    <3> QED
      BY <2>1, <3>1
  <2>2. CASE n # r + 1
    <3>1. \A k \in DOMAIN s : k \in DOMAIN t /\ t[k] = s[k]
      BY <1>1 DEF t
    <3> QED
      BY <1>2, <2>2, <3>1
  <2> QED
    BY <2>1, <2>2
<1>4. Gapless(scr, sn, tn, t, b, r + 1)
  BY <1>3 DEF Gapless
<1> QED
  BY <1>2, <1>4 DEF Gapless, t

\* The unit a batch becomes.
LEMMA EndsWhole ==
  ASSUME TypeInv, NEW c \in Conns, Ends(c), ~failed[c],
         NEW b \in 1 .. rd[c], script[c][b] = "begin",
         Gapless(script[c], sent[c], torn[c], stmts[c], b, rd[c])
  PROVE  Whole(script[c], sent[c], torn[c], closed[c], unit'[c])
<1> DEFINE scr == script[c]
<1>1. unit'[c].stmts = stmts[c] /\ unit'[c].last = rd'[c] /\ rd[c] \in Nat
  BY ServerAssumption DEF Ends, TypeInv, TypeOK
<1>2. CASE /\ rd[c] < sent[c] /\ rd'[c] = rd[c] + 1
           /\ {"end", "garbled"} \cap Meanings(c, rd[c] + 1) # {}
  <2>1. PICK tok \in Meanings(c, rd[c] + 1) : tok \in {"end", "garbled"}
    BY <1>2
  <2>2. scr[rd[c] + 1] \in {"end", "garbled"} \/ (torn[c] /\ closed[c] /\ rd[c] + 1 = sent[c])
    BY <2>1, MeaningOf
  <2>3. b \in 1 .. rd[c] + 1
    BY <1>1
  <2>4. ASSUME NEW n \in b + 1 .. rd[c] + 1
        PROVE  \/ (\E k \in DOMAIN stmts[c] : stmts[c][k] = n)
               \/ scr[n] = "blank" \/ (torn[c] /\ n = sent[c])
               \/ (n = rd[c] + 1 /\ scr[n] \in {"end", "garbled"})
    <3>1. CASE n = rd[c] + 1
      BY <2>2, <3>1
    <3>2. CASE n # rd[c] + 1
      <4>1. n \in b + 1 .. rd[c]
        BY <1>1, <3>2
      <4> QED
        BY <4>1 DEF Gapless
    <3> QED
      BY <3>1, <3>2
  <2> HIDE DEF scr
  <2>5. scr[b] = "begin"
    BY DEF scr
  <2>6. Whole(scr, sent[c], torn[c], closed[c], unit'[c])
    BY <1>1, <1>2, <2>2, <2>3, <2>4, <2>5 DEF Whole
  <2> QED
    BY <2>6 DEF scr
<1>3. CASE closed[c] /\ rd[c] = sent[c] /\ rd'[c] = rd[c]
  BY <1>1, <1>3 DEF Whole, Gapless
<1> QED
  BY <1>2, <1>3 DEF Ends

LEMMA BatchNext ==
  ASSUME TypeInv, TypeOKThen, NEW c \in Conns, Moves(c), script' = script,
         BatchOK(script[c], sent[c], torn[c], closed[c], mode[c], rd[c], stmts[c], failed[c],
                 unit[c], log[c])
  PROVE  BatchOK(script'[c], sent'[c], torn'[c], closed'[c], mode'[c], rd'[c], stmts'[c],
                 failed'[c], unit'[c], log'[c])
<1>1. log[c] \in Seq(Unit) /\ stmts[c] \in Seq(Nat) /\ rd[c] \in Nat
  BY ServerAssumption DEF TypeInv, TypeOK
<1>2. CASE Arrives(c)
  <2>1. ~torn[c] /\ ~closed[c]
    BY <1>2 DEF Arrives, TypeInv, ControlOK
  <2> QED
    BY <1>2, <2>1, BatchLater DEF Arrives, Still
<1>3. CASE Turns(c)
  BY <1>3 DEF Turns, Quiet, BatchOK
<1>4. CASE Ends(c)
  <2>1. mode'[c] = "exec" => ~failed[c]
    BY <1>4 DEF Ends
  <2>2. ASSUME ~failed[c] PROVE Whole(script[c], sent[c], torn[c], closed[c], unit'[c])
    BY <1>4, <2>2, EndsWhole DEF Ends, BatchOK
  <2>3. mode'[c] # "batch" /\ log'[c] = log[c] /\ Quiet(c)
    BY <1>4 DEF Ends
  <2> QED
    BY <2>1, <2>2, <2>3 DEF BatchOK, Quiet
<1>5. CASE Executes(c)
  <2>1. unit[c] \in Unit /\ mode[c] = "exec"
    BY <1>5 DEF Executes, TypeInv, ControlOK
  <2>2. /\ unit'[c] \in Unit /\ unit'[c].last = unit[c].last /\ unit'[c].stmts = unit[c].stmts
        /\ unit'[c].batch = unit[c].batch
    BY <1>5, <2>1 DEF Executes, Unit
  <2>3. Whole(script[c], sent[c], torn[c], closed[c], unit'[c])
    BY <2>1, <2>2 DEF BatchOK, Whole
  <2>4. mode'[c] = "respond" /\ log'[c] = Append(log[c], unit'[c]) /\ Quiet(c)
    BY <1>5 DEF Executes
  <2>5. \A i \in DOMAIN log'[c] : Whole(script[c], sent[c], torn[c], closed[c], log'[c][i])
    <3> SUFFICES ASSUME NEW i \in 1 .. Len(log[c]) + 1
                 PROVE  Whole(script[c], sent[c], torn[c], closed[c], log'[c][i])
      BY <1>1, <2>2, <2>4, AppendUnit
    <3>1. CASE i = Len(log[c]) + 1
      BY <1>1, <2>2, <2>3, <2>4, <3>1, AppendUnit
    <3>2. CASE i # Len(log[c]) + 1
      <4>1. i \in DOMAIN log[c] /\ log'[c][i] = log[c][i]
        BY <1>1, <2>2, <2>4, <3>2, AppendUnit
      <4> QED
        BY <4>1 DEF BatchOK
    <3> QED
      BY <3>1, <3>2
  <2> QED
    BY <2>4, <2>5 DEF BatchOK, Quiet
<1>6. CASE Answers(c)
  BY <1>6 DEF Answers, Quiet, BatchOK
<1>7. ASSUME NEW tok \in Tokens, Reads(c, tok)
      PROVE  BatchOK(script'[c], sent'[c], torn'[c], closed'[c], mode'[c], rd'[c], stmts'[c],
                     failed'[c], unit'[c], log'[c])
  <2>1. /\ rd'[c] = rd[c] + 1 /\ log'[c] = log[c] /\ Quiet(c)
        /\ mode'[c] = "exec" => ~unit'[c].batch
        /\ mode'[c] = "batch" => tok = "begin" /\ tok \in Meanings(c, rd[c] + 1)
    BY <1>7 DEF Reads
  <2>2. mode'[c] = "batch" => script[c][rd[c] + 1] = "begin"
    BY <2>1, MeaningOf
  <2>3. rd[c] + 1 \in 1 .. rd[c] + 1
        /\ Gapless(script[c], sent[c], torn[c], stmts'[c], rd[c] + 1, rd[c] + 1)
    BY <1>1 DEF Gapless
  <2>4. mode'[c] = "exec" => Whole(script[c], sent[c], torn[c], closed[c], unit'[c])
    BY <2>1 DEF Whole
  <2> QED
    BY <2>1, <2>2, <2>3, <2>4 DEF BatchOK, Quiet
<1>8. ASSUME NEW tok \in Tokens, Collects(c, tok)
      PROVE  BatchOK(script'[c], sent'[c], torn'[c], closed'[c], mode'[c], rd'[c], stmts'[c],
                     failed'[c], unit'[c], log'[c])
  <2>1. /\ mode[c] = "batch" /\ mode'[c] = "batch" /\ rd'[c] = rd[c] + 1 /\ log'[c] = log[c]
        /\ Quiet(c) /\ tok \in Meanings(c, rd[c] + 1)
    BY <1>8 DEF Collects
  <2>2. ASSUME ~failed'[c]
        PROVE  /\ ~failed[c]
               /\ \/ stmts'[c] = Append(stmts[c], rd[c] + 1)
                  \/ stmts'[c] = stmts[c] /\ tok = "blank"
    BY <1>8, <2>2 DEF Collects, Tokens
  <2>3. ASSUME ~failed'[c]
        PROVE  \E b \in 1 .. rd[c] + 1 :
                 /\ script[c][b] = "begin"
                 /\ Gapless(script[c], sent[c], torn[c], stmts'[c], b, rd[c] + 1)
    <3>1. PICK b \in 1 .. rd[c] : /\ script[c][b] = "begin"
                                  /\ Gapless(script[c], sent[c], torn[c], stmts[c], b, rd[c])
      BY <2>1, <2>2, <2>3 DEF BatchOK
    <3>2. b \in Nat /\ b \in 1 .. rd[c] + 1
      BY <1>1
    <3>3. tok = "blank" => script[c][rd[c] + 1] = "blank" \/ (torn[c] /\ rd[c] + 1 = sent[c])
      BY <2>1, MeaningOf
    <3>4. Gapless(script[c], sent[c], torn[c], stmts'[c], b, rd[c] + 1)
      BY <1>1, <2>2, <2>3, <3>1, <3>2, <3>3, GaplessMore
    <3> QED
      BY <3>1, <3>2, <3>4
  <2> QED
    BY <2>1, <2>3 DEF BatchOK, Quiet
<1> QED
  BY <1>2, <1>3, <1>4, <1>5, <1>6, <1>7, <1>8 DEF Moves

LEMMA SkipNext ==
  ASSUME TypeInv, TypeOKThen, NEW c \in Conns, Moves(c), script' = script,
         SkipOK(script[c], sent[c], torn[c], mode[c], rd[c], answers[c])
  PROVE  SkipOK(script'[c], sent'[c], torn'[c], mode'[c], rd'[c], answers'[c])
<1>1. answers[c] \in Seq(Unit) /\ rd[c] \in Nat
  BY ServerAssumption DEF TypeInv, TypeOK
<1>2. CASE Arrives(c)
  <2>1. ~torn[c] /\ mode'[c] = mode[c] /\ rd'[c] = rd[c] /\ answers'[c] = answers[c]
    BY <1>2 DEF Arrives, Still, TypeInv, ControlOK
  <2> QED
    BY <2>1 DEF SkipOK
<1>3. CASE Turns(c)
  <2>1. mode'[c] = "read" => rd'[c] = 0
    BY <1>3 DEF Turns, TypeInv, ControlOK
  <2> QED
    BY <2>1 DEF SkipOK
<1>4. CASE Ends(c) \/ Executes(c)
  BY <1>4 DEF Ends, Executes, SkipOK
<1>5. CASE Answers(c)
  <2>1. unit[c] \in Unit /\ unit[c].last = rd[c]
    BY <1>5 DEF Answers, TypeInv, ControlOK
  <2>2. answers'[c] = Append(answers[c], unit[c]) /\ rd'[c] = rd[c]
    BY <1>5 DEF Answers
  <2>3. /\ Len(answers[c]) + 1 \in DOMAIN answers'[c]
        /\ answers'[c][Len(answers[c]) + 1].last = rd[c]
    BY <1>1, <2>1, <2>2, AppendUnit
  <2> QED
    BY <1>1, <2>2, <2>3 DEF SkipOK
<1>6. ASSUME NEW tok \in Tokens, Reads(c, tok)
      PROVE  SkipOK(script'[c], sent'[c], torn'[c], mode'[c], rd'[c], answers'[c])
  <2>1. /\ mode[c] = "read" /\ rd'[c] = rd[c] + 1 /\ answers'[c] = answers[c] /\ Quiet(c)
        /\ mode'[c] = "read" => tok = "blank" /\ tok \in Meanings(c, rd[c] + 1)
    BY <1>6 DEF Reads
  <2>2. mode'[c] = "read" =>
          script[c][rd[c] + 1] = "blank" \/ (torn[c] /\ rd[c] + 1 = sent[c])
    BY <2>1, MeaningOf
  <2>3. ASSUME NEW n \in 1 .. rd[c] + 1, n # rd[c] + 1 PROVE n \in 1 .. rd[c]
    BY <1>1, <2>3
  <2> QED
    BY <2>1, <2>2, <2>3 DEF SkipOK, Quiet
<1>7. ASSUME NEW tok \in Tokens, Collects(c, tok)
      PROVE  SkipOK(script'[c], sent'[c], torn'[c], mode'[c], rd'[c], answers'[c])
  BY <1>7 DEF Collects, SkipOK
<1> QED
  BY <1>2, <1>3, <1>4, <1>5, <1>6, <1>7 DEF Moves

-----------------------------------------------------------------------------
(* The server *)

LEMMA ServerInvInit == Init => ServerInv
<1> SUFFICES ASSUME Init PROVE ServerInv
  OBVIOUS
<1>1. TypeInv
  BY TypeInvInit
<1> SUFFICES ASSUME NEW c \in Conns
             PROVE  /\ AnswersOK(mode[c], rd[c], unit[c], log[c], answers[c])
                    /\ OrderOK(mode[c], rd[c], stmts[c], unit[c], log[c])
                    /\ BatchOK(script[c], sent[c], torn[c], closed[c], mode[c], rd[c], stmts[c],
                               failed[c], unit[c], log[c])
                    /\ SkipOK(script[c], sent[c], torn[c], mode[c], rd[c], answers[c])
  BY <1>1 DEF ServerInv
<1>2. mode[c] = "new" /\ log[c] = <<>> /\ answers[c] = <<>> /\ DOMAIN log[c] = {} /\ DOMAIN answers[c] = {}
  BY DEF Init
<1> QED
  BY <1>2 DEF AnswersOK, Rising, Below, Told, Truthful, OrderOK, BatchOK, SkipOK

LEMMA ServerInvNext == ServerInv /\ [Next]_vars => ServerInv'
<1> SUFFICES ASSUME ServerInv, [Next]_vars PROVE ServerInv'
  OBVIOUS
<1>1. TypeInv /\ TypeInv'
  BY TypeInvNext DEF ServerInv
<1>2. CASE UNCHANGED <<client, task>>
  BY <1>1, <1>2 DEF client, task, ServerInv
<1>3. ASSUME NEW c \in Conns, Send(c) \/ Close(c) \/ Work(c) PROVE ServerInv'
  <2>1. TypeOKThen /\ Frame(c) /\ Moves(c) /\ script' = script
    BY <1>1, <1>3, AllMoves DEF Frame
  <2>2. ASSUME NEW d \in Conns
        PROVE  /\ AnswersOK(mode'[d], rd'[d], unit'[d], log'[d], answers'[d])
               /\ OrderOK(mode'[d], rd'[d], stmts'[d], unit'[d], log'[d])
               /\ BatchOK(script'[d], sent'[d], torn'[d], closed'[d], mode'[d], rd'[d], stmts'[d],
                          failed'[d], unit'[d], log'[d])
               /\ SkipOK(script'[d], sent'[d], torn'[d], mode'[d], rd'[d], answers'[d])
    <3>1. CASE d = c
      BY <1>1, <2>1, <3>1, AnswersNext, OrderNext, BatchNext, SkipNext DEF ServerInv
    <3>2. CASE d # c
      BY <2>1, <3>2 DEF ServerInv, Frame, Quiet, Still
    <3> QED
      BY <3>1, <3>2
  <2> QED
    BY <1>1, <2>2 DEF ServerInv
<1> QED
  BY <1>2, <1>3 DEF Next, Shutdown, vars

LEMMA ServerInvAlways == Spec => []ServerInv
BY ServerInvInit, ServerInvNext, PTL DEF Spec

\* Each statement of a connection is executed at most once and in the order of its
\* lines, for scripts of any length with any errors, batches and blank lines.
THEOREM ExecutedInOrder == Spec => []InOrder
<1>1. ServerInv => InOrder
  <2> SUFFICES ASSUME ServerInv, NEW c \in Conns, NEW i \in DOMAIN log[c], NEW j \in DOMAIN log[c],
                      NEW k \in DOMAIN log[c][i].stmts, NEW l \in DOMAIN log[c][j].stmts,
                      i < j \/ (i = j /\ k < l)
               PROVE  log[c][i].stmts[k] < log[c][j].stmts[l]
    BY DEF InOrder
  <2>1. OrderOK(mode[c], rd[c], stmts[c], unit[c], log[c]) /\ log[c] \in Seq(Unit)
    BY DEF ServerInv, TypeInv, TypeOK
  <2>2. CASE i = j /\ k < l
    BY <2>1, <2>2 DEF OrderOK
  <2>3. CASE i < j
    <3>1. log[c][i].stmts[k] <= log[c][i].last /\ log[c][i].last < log[c][j].stmts[l]
      BY <2>1, <2>3 DEF OrderOK
    <3>2. /\ log[c][i].stmts \in Seq(Nat) /\ log[c][j].stmts \in Seq(Nat)
          /\ log[c][i].last \in Nat
      BY <2>1, UnitFields
    <3>3. log[c][i].stmts[k] \in Nat /\ log[c][j].stmts[l] \in Nat
      BY <3>2, LenProperties, ElementOfSeq
    <3> QED
      BY SMTT(30), <3>1, <3>2, <3>3
  <2> QED
    BY <2>2, <2>3
<1> QED
  BY <1>1, ServerInvAlways, PTL

\* No part of a batch is executed without the rest: what a batch executes are all
\* its lines from BEGIN to its end, whether END BATCH, a garbled line or a closed
\* stream ended it.
THEOREM BatchesAreWhole == Spec => []BatchWhole
<1>1. ServerInv => BatchWhole
  <2> SUFFICES ASSUME ServerInv, NEW c \in Conns, NEW i \in DOMAIN log[c]
               PROVE  Whole(script[c], sent[c], torn[c], closed[c], log[c][i])
    BY DEF BatchWhole, Whole
  <2> QED
    BY DEF ServerInv, BatchOK
<1> QED
  BY <1>1, ServerInvAlways, PTL

\* Whatever errors, disconnects and shutdowns happen, at most the last executed
\* unit of a connection is unanswered, every answer tells the outcome of its own
\* unit, and no request is passed over.
THEOREM AnswersTellAll == Spec => []AnswersTell
<1>1. ServerInv => AnswersTell
  <2> SUFFICES ASSUME ServerInv PROVE AnswersTell
    OBVIOUS
  <2>1. AtMostOneInDoubt
    <3> SUFFICES ASSUME NEW c \in Conns
                 PROVE  /\ Rising(answers[c]) /\ Truthful(log[c], answers[c])
                        /\ \A i \in DOMAIN log[c] : i < Len(log[c]) =>
                             \E j \in DOMAIN answers[c] : answers[c][j] = log[c][i]
      BY DEF AtMostOneInDoubt, Rising, Truthful
    <3>1. AnswersOK(mode[c], rd[c], unit[c], log[c], answers[c]) /\ log[c] \in Seq(Unit)
      BY DEF ServerInv, TypeInv, TypeOK
    <3>2. Told(log[c], answers[c], Len(log[c]) - 1)
      BY <3>1 DEF AnswersOK
    <3>3. ASSUME NEW i \in DOMAIN log[c], i < Len(log[c]) PROVE i <= Len(log[c]) - 1
      BY <3>1, <3>3, LenProperties
    <3> QED
      BY <3>1, <3>2, <3>3 DEF AnswersOK, Told
  <2>2. NoRequestSkipped
    BY DEF ServerInv, SkipOK, NoRequestSkipped
  <2> QED
    BY <2>1, <2>2 DEF AnswersTell
<1> QED
  BY <1>1, ServerInvAlways, PTL
=============================================================================
