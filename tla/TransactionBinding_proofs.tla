-------------------------- MODULE TransactionBinding_proofs --------------------------
(***************************************************************************)
(* What TransactionBinding promises for any number of calls, frames and    *)
(* tenants: its types, always, and, when no frame can be rolled back while *)
(* a TenantRepository call is on its way, that queries run under their     *)
(* tenant and that the record is what the database would answer.           *)
(***************************************************************************)
EXTENDS TransactionBinding, FiniteSetTheorems, SequenceTheorems,
        WellFoundedInduction, TLAPS

-----------------------------------------------------------------------------
(* The invariant, for any transaction. *)

(* The frames between their SAVEPOINT being sent and their end, and those called. *)
Open   == {f \in Frames : stage[f] \in {"opening", "binding", "running", "undoing"}}
Called == {f \in Frames : stage[f] # "idle"}

(* The statements on their way: the first n have been run. *)
pipe == answers \o wire
n    == Len(answers)

Typed ==
    /\ stage \in [Frames -> Stages]
    /\ parent \in [Frames -> Contexts]
    /\ lvl \in [Contexts -> Nat \ {0}]
    /\ place \in [Tasks -> Places]
    /\ context \in [Tasks -> Contexts]
    /\ wants \in [Actors -> Tenants]
    /\ waits \in [Actors -> Actors \cup {Nobody}]
    /\ bound \in Tenants
    /\ level \in Nat
    /\ openLevel \in Nat \ {0}
    /\ ready \in Actors \cup {Nobody}
    /\ settled \subseteq Actors
    /\ wire \in Seq(Statement)
    /\ answers \in Seq(Statement)
    /\ log \in Seq([set : Tenants, by : Contexts \cup Tasks])
    /\ ranUnder \in [Tasks -> Tenants]

(* A frame is no deeper than the calls made so far. *)
Depth == \A c \in Contexts : lvl[c] <= Cardinality(Called) + 1

(* The open frames are nested in one another, one to a level, and openLevel  *)
(* is the innermost one's.                                                   *)
Chained ==
    /\ lvl[Root] = 1
    /\ \A f \in Frames : stage[f] \notin {"idle", "closed"} =>
          Runs(parent[f]) /\ lvl[f] = lvl[parent[f]] + 1
    /\ \A f, g \in Open : lvl[f] = lvl[g] => f = g
    /\ \A c \in Open \cup {Root} :
          /\ lvl[c] <= openLevel
          /\ lvl[c] < openLevel => \E g \in Open : parent[g] = c
    /\ \E c \in Open \cup {Root} : lvl[c] = openLevel
    /\ level <= openLevel

(* A statement on its way is the one its sender is waiting for. *)
Awaited == {s \in Statement :
    \/ s.op = "set" /\ waits[s.by] = s.by /\ wants[s.by] # NoId
         /\ (s.by \in Tasks => place[s.by] = "claiming")
         /\ (s.by \in Frames => stage[s.by] = "binding")
    \/ s.op = "query" /\ s.by \in Tasks /\ place[s.by] = "querying"
    \/ s.op = "savepoint" /\ s.by \in Frames /\ stage[s.by] = "opening"
    \/ s.op = "rollback" /\ s.by \in Frames /\ stage[s.by] = "undoing"}

(* The same, of a sender. *)
Waiting(o, a) ==
    /\ o = "set" => /\ waits[a] = a /\ wants[a] # NoId
                    /\ a \in Tasks => place[a] = "claiming"
                    /\ a \in Frames => stage[a] = "binding"
    /\ o = "query" => a \in Tasks /\ place[a] = "querying"
    /\ o = "savepoint" => a \in Frames /\ stage[a] = "opening"
    /\ o = "rollback" => a \in Frames /\ stage[a] = "undoing"

Sent ==
    /\ \A i \in 1 .. Len(pipe) : pipe[i] \in Awaited
    /\ \A i, j \in 1 .. Len(pipe) : pipe[i].by = pipe[j].by => i = j

-----------------------------------------------------------------------------
(* The statements on their way. *)

(* What the joined sequence holds. *)
LEMMA Piped ==
  ASSUME Typed
  PROVE  /\ pipe \in Seq(Statement) /\ n \in Nat /\ Len(wire) \in Nat
         /\ Len(pipe) = n + Len(wire)
         /\ \A i \in 1 .. n : pipe[i] = answers[i]
         /\ \A i \in 1 .. Len(wire) : pipe[n + i] = wire[i]
         /\ \A i \in 1 .. Len(pipe) : pipe[i] \in Statement
  BY ConcatProperties, LenProperties, ElementOfSeq DEF Typed, pipe, n

(* Who sent a statement on its way, and what it is. *)
LEMMA PipedElement ==
  ASSUME Typed, NEW i \in 1 .. Len(pipe)
  PROVE  pipe[i].op \in Ops /\ pipe[i].by \in Actors
  BY Piped DEF Statement

(* Statements are sent after the others. *)
LEMMA SendsPipe ==
  ASSUME Typed, NEW q \in Seq(Statement), wire' = wire \o q, answers' = answers
  PROVE  /\ n' = n /\ Len(pipe') = Len(pipe) + Len(q) /\ Len(q) \in Nat
         /\ \A i \in 1 .. Len(pipe) : pipe'[i] = pipe[i]
         /\ \A i \in 1 .. Len(q) : pipe'[Len(pipe) + i] = q[i]
  <1>1. pipe' = pipe \o q
    BY ConcatAssociative DEF Typed, pipe
  <1>2. pipe \in Seq(Statement)
    BY Piped
  <1> QED BY <1>1, <1>2, ConcatProperties, LenProperties DEF n

(* Sending one statement. *)
LEMMA SendPipe ==
  ASSUME Typed, NEW o \in Ops, NEW a \in Actors, Send(o, a), answers' = answers
  PROVE  /\ n' = n /\ Len(pipe') = Len(pipe) + 1 /\ wire' \in Seq(Statement)
         /\ \A i \in 1 .. Len(pipe) : pipe'[i] = pipe[i]
         /\ pipe'[Len(pipe) + 1] = [op |-> o, by |-> a]
  <1> DEFINE s == [op |-> o, by |-> a]
  <1>1. s \in Statement /\ <<s>> \in Seq(Statement) /\ Len(<<s>>) = 1 /\ <<s>>[1] = s
    BY DEF Statement
  <1>2. wire' = wire \o <<s>> /\ wire' \in Seq(Statement)
    BY <1>1, AppendIsConcat, AppendProperties DEF Typed, Send
  <1> HIDE DEF s
  <1>3. /\ n' = n /\ Len(pipe') = Len(pipe) + 1
        /\ \A i \in 1 .. Len(pipe) : pipe'[i] = pipe[i]
        /\ \A i \in 1 .. 1 : pipe'[Len(pipe) + i] = <<s>>[i]
    BY <1>1, <1>2, SendsPipe
  <1> QED BY <1>1, <1>2, <1>3 DEF s

(* Running one moves the boundary. *)
LEMMA RunPipe ==
  ASSUME Typed, wire # <<>>, answers' = Append(answers, Head(wire)), wire' = Tail(wire)
  PROVE  /\ n' = n + 1 /\ pipe' = pipe /\ n < Len(pipe) /\ pipe[n + 1] = Head(wire)
         /\ Head(wire) \in Statement
         /\ wire' \in Seq(Statement) /\ answers' \in Seq(Statement)
  <1>1. Head(wire) \in Statement /\ Tail(wire) \in Seq(Statement) /\ Len(wire) >= 1
        /\ Head(wire) = wire[1]
    BY HeadTailProperties, EmptySeq, LenProperties DEF Typed
  <1>2. answers' \in Seq(Statement) /\ n' = n + 1
    BY <1>1, AppendProperties DEF Typed, n
  <1>3. wire = <<Head(wire)>> \o Tail(wire)
    BY HeadTailProperties, ConcatProperties DEF Typed
  <1>4. answers' = answers \o <<Head(wire)>>
    BY <1>1, AppendIsConcat DEF Typed
  <1>5. pipe' = pipe
    <2>1. <<Head(wire)>> \in Seq(Statement) /\ answers \in Seq(Statement)
      BY <1>1 DEF Typed
    <2>2. (answers \o <<Head(wire)>>) \o Tail(wire) = answers \o (<<Head(wire)>> \o Tail(wire))
      BY <2>1, <1>1, ConcatAssociative
    <2> QED BY <2>2, <1>3, <1>4 DEF pipe
  <1> QED BY <1>1, <1>2, <1>5, Piped

(* A bounded set of numbers has a greatest element. *)
LEMMA Greatest ==
  ASSUME NEW b \in Nat, NEW T \in SUBSET (1 .. b), T # {}
  PROVE  \E i \in T : \A j \in T : j <= i
  <1> DEFINE R == OpToRel(<, Nat)
             U == {k \in Nat : b - k \in T}
  <1>1. \A x, y \in Nat : <<y, x>> \in R <=> y < x
    BY DEF OpToRel
  <1>2. IsWellFoundedOn(R, Nat)
    BY NatLessThanWellFounded
  <1> HIDE DEF R
  <1>3. U \subseteq Nat /\ U # {}
    <2>1. PICK i \in T : TRUE
      OBVIOUS
    <2>2. b - i \in Nat /\ b - (b - i) = i
      OBVIOUS
    <2> QED BY <2>1, <2>2
  <1>4. PICK k \in U : \A y \in U : ~ (<<y, k>> \in R)
    BY <1>2, <1>3, WFMin
  <1>5. ASSUME NEW y \in U PROVE k <= y
    <2>1. y \in Nat /\ k \in Nat /\ ~ (<<y, k>> \in R)
      BY <1>3, <1>4
    <2>2. ~ (y < k)
      BY <1>1, <2>1
    <2> QED BY <2>1, <2>2
  <1>6. ASSUME NEW j \in T PROVE j <= b - k
    <2>1. b - j \in U
      <3>1. b - j \in Nat /\ b - (b - j) = j
        OBVIOUS
      <3> QED BY <3>1
    <2>2. k <= b - j /\ k \in Nat
      BY <2>1, <1>5
    <2> QED BY <2>2
  <1>7. b - k \in T
    BY <1>4
  <1> QED BY <1>6, <1>7

(* What is left of two sequences, and a third, after the first element. *)
LEMMA TailThenMore ==
  ASSUME NEW S, NEW s \in Seq(S), NEW t \in Seq(S), NEW q \in Seq(S), s # << >>
  PROVE  LET r == Tail(s) \o (t \o q) IN
         /\ Len(r) = Len(s \o t) - 1 + Len(q)
         /\ \A i \in 1 .. Len(s \o t) - 1 : r[i] = (s \o t)[i + 1]
         /\ \A i \in 1 .. Len(q) : r[Len(s \o t) - 1 + i] = q[i]
         /\ (s \o t)[1] = Head(s)
  <1> DEFINE h == Tail(s)
             r == (h \o t) \o q
  <1>1. /\ h \in Seq(S) /\ Len(s) \in Nat \ {0} /\ Len(h) = Len(s) - 1
        /\ \A i \in 1 .. Len(h) : h[i] = s[i + 1]
        /\ Head(s) = s[1] /\ Len(t) \in Nat /\ Len(q) \in Nat
    BY HeadTailProperties, EmptySeq, LenProperties
  <1> HIDE DEF h
  <1>2. h \o (t \o q) = r
    BY <1>1, ConcatAssociative
  <1>3. /\ s \o t \in Seq(S) /\ Len(s \o t) = Len(s) + Len(t)
        /\ \A i \in 1 .. Len(s) + Len(t) :
             (s \o t)[i] = IF i <= Len(s) THEN s[i] ELSE t[i - Len(s)]
    BY ConcatProperties
  <1>4. /\ h \o t \in Seq(S) /\ Len(h \o t) = Len(h) + Len(t)
        /\ \A i \in 1 .. Len(h) + Len(t) :
             (h \o t)[i] = IF i <= Len(h) THEN h[i] ELSE t[i - Len(h)]
    BY <1>1, ConcatProperties
  <1>5. /\ Len(r) = Len(h \o t) + Len(q)
        /\ \A i \in 1 .. Len(h \o t) + Len(q) :
             r[i] = IF i <= Len(h \o t) THEN (h \o t)[i] ELSE q[i - Len(h \o t)]
    BY <1>4, ConcatProperties
  <1> HIDE DEF r
  <1>6. ASSUME NEW i \in 1 .. Len(h \o t) PROVE (h \o t)[i] = (s \o t)[i + 1]
    <2>1. i \in 1 .. Len(h) + Len(t) /\ i + 1 \in 1 .. Len(s) + Len(t)
      BY <1>1, <1>4
    <2>2. CASE i <= Len(h)
      <3>1. i \in 1 .. Len(h) /\ i + 1 <= Len(s)
        BY <2>1, <2>2, <1>1
      <3> QED BY <3>1, <2>1, <2>2, <1>1, <1>3, <1>4
    <2>3. CASE ~(i <= Len(h))
      <3>1. ~(i + 1 <= Len(s)) /\ i + 1 - Len(s) = i - Len(h)
        BY <2>1, <2>3, <1>1
      <3> QED BY <3>1, <2>1, <2>3, <1>3, <1>4
    <2> QED BY <2>2, <2>3
  <1>7. Len(h \o t) = Len(s \o t) - 1 /\ Len(h \o t) \in Nat
    BY <1>1, <1>3, <1>4
  <1>8. ASSUME NEW i \in 1 .. Len(h \o t) PROVE r[i] = (s \o t)[i + 1]
    <2>1. i \in 1 .. Len(h \o t) + Len(q) /\ i <= Len(h \o t)
      BY <1>1, <1>7
    <2> QED BY <2>1, <1>5, <1>6
  <1>9. ASSUME NEW i \in 1 .. Len(q) PROVE r[Len(h \o t) + i] = q[i]
    <2> DEFINE k == Len(h \o t) + i
    <2>1. k \in 1 .. Len(h \o t) + Len(q) /\ ~(k <= Len(h \o t)) /\ k - Len(h \o t) = i
      BY <1>1, <1>7
    <2> HIDE DEF k
    <2>2. r[k] = q[i]
      BY <2>1, <1>5
    <2> QED BY <2>2 DEF k
  <1>10. (s \o t)[1] = Head(s)
    <2>1. 1 \in 1 .. Len(s) + Len(t) /\ 1 <= Len(s)
      BY <1>1
    <2> QED BY <2>1, <1>1, <1>3
  <1>11. Len(r) = Len(s \o t) - 1 + Len(q)
    BY <1>5, <1>7
  <1> QED BY <1>2, <1>7, <1>8, <1>9, <1>10, <1>11 DEF h

(* Handling an answer, and sending q, shifts the rest down. *)
LEMMA HandlesPipe ==
  ASSUME Typed, NEW o, NEW a, Answered(o, a), NEW q \in Seq(Statement), wire' = wire \o q
  PROVE  /\ n' = n - 1 /\ n >= 1 /\ pipe[1] = [op |-> o, by |-> a]
         /\ answers' \in Seq(Statement) /\ wire' \in Seq(Statement)
         /\ Len(pipe') = Len(pipe) - 1 + Len(q) /\ Len(q) \in Nat
         /\ \A i \in 1 .. Len(pipe) - 1 : pipe'[i] = pipe[i + 1]
         /\ \A i \in 1 .. Len(q) : pipe'[Len(pipe) - 1 + i] = q[i]
  <1>1. /\ Tail(answers) \in Seq(Statement) /\ n \in Nat /\ n >= 1
        /\ Len(Tail(answers)) = n - 1
    BY HeadTailProperties, EmptySeq, LenProperties DEF Typed, Answered, n
  <1>2. wire' \in Seq(Statement) /\ Len(q) \in Nat
    BY ConcatProperties, LenProperties DEF Typed
  <1>3. answers \in Seq(Statement) /\ wire \in Seq(Statement) /\ answers # << >>
        /\ answers' = Tail(answers) /\ Head(answers) = [op |-> o, by |-> a]
    BY DEF Typed, Answered
  <1>4. pipe' = Tail(answers) \o (wire \o q)
    BY <1>3 DEF pipe
  <1>5. /\ Len(pipe') = Len(pipe) - 1 + Len(q)
        /\ \A i \in 1 .. Len(pipe) - 1 : pipe'[i] = pipe[i + 1]
        /\ \A i \in 1 .. Len(q) : pipe'[Len(pipe) - 1 + i] = q[i]
        /\ pipe[1] = Head(answers)
    BY <1>3, <1>4, TailThenMore DEF pipe
  <1> QED BY <1>1, <1>2, <1>3, <1>5 DEF n

(* Handling an answer that sends nothing. *)
LEMMA HandlePipe ==
  ASSUME Typed, NEW o, NEW a, Answered(o, a), wire' = wire
  PROVE  /\ n' = n - 1 /\ n >= 1 /\ pipe[1] = [op |-> o, by |-> a]
         /\ answers' \in Seq(Statement)
         /\ Len(pipe') = Len(pipe) - 1
         /\ \A i \in 1 .. Len(pipe) - 1 : pipe'[i] = pipe[i + 1]
  <1>1. << >> \in Seq(Statement) /\ wire' = wire \o << >> /\ Len(<< >>) = 0
    BY ConcatEmptySeq DEF Typed
  <1>2. Len(pipe) - 1 + 0 = Len(pipe) - 1
    BY Piped
  <1>3. /\ n' = n - 1 /\ n >= 1 /\ pipe[1] = [op |-> o, by |-> a]
        /\ answers' \in Seq(Statement) /\ Len(pipe') = Len(pipe) - 1 + Len(<< >>)
        /\ \A i \in 1 .. Len(pipe) - 1 : pipe'[i] = pipe[i + 1]
    BY <1>1, HandlesPipe, Zenon
  <1> QED BY <1>1, <1>2, <1>3, Zenon

(* Handling an answer that sends one statement. *)
LEMMA HandleSendPipe ==
  ASSUME Typed, NEW o, NEW a, Answered(o, a), NEW p \in Ops, NEW b \in Actors, Send(p, b)
  PROVE  /\ n' = n - 1 /\ n >= 1 /\ pipe[1] = [op |-> o, by |-> a]
         /\ answers' \in Seq(Statement) /\ wire' \in Seq(Statement)
         /\ Len(pipe') = Len(pipe)
         /\ \A i \in 1 .. Len(pipe) - 1 : pipe'[i] = pipe[i + 1]
         /\ pipe'[Len(pipe)] = [op |-> p, by |-> b]
  <1> DEFINE s == [op |-> p, by |-> b]
  <1>1. s \in Statement /\ <<s>> \in Seq(Statement) /\ Len(<<s>>) = 1 /\ <<s>>[1] = s
    BY DEF Statement
  <1>2. wire' = wire \o <<s>>
    BY <1>1, AppendIsConcat DEF Typed, Send
  <1> HIDE DEF s
  <1>3. /\ Len(pipe') = Len(pipe) - 1 + 1
        /\ \A i \in 1 .. 1 : pipe'[Len(pipe) - 1 + i] = <<s>>[i]
        /\ n' = n - 1 /\ n >= 1 /\ pipe[1] = [op |-> o, by |-> a]
        /\ answers' \in Seq(Statement) /\ wire' \in Seq(Statement)
        /\ \A i \in 1 .. Len(pipe) - 1 : pipe'[i] = pipe[i + 1]
    BY <1>1, <1>2, HandlesPipe
  <1>4. Len(pipe) \in Nat /\ 1 \in 1 .. 1
    BY Piped
  <1> QED BY <1>1, <1>3, <1>4 DEF s

(* Awaited, of a statement and of its sender. *)
LEMMA AwaitedSender ==
  /\ \A s \in Statement : s \in Awaited <=> Waiting(s.op, s.by)
  /\ \A o \in Ops, a \in Actors : [op |-> o, by |-> a] \in Awaited <=> Waiting(o, a)
  <1>1. ASSUME NEW s \in Statement PROVE s \in Awaited <=> Waiting(s.op, s.by)
    <2>1. s.op \in Ops
      BY DEF Statement
    <2>2. CASE s.op = "set"
      BY <2>2 DEF Awaited, Waiting
    <2>3. CASE s.op = "query"
      BY <2>3 DEF Awaited, Waiting
    <2>4. CASE s.op = "savepoint"
      BY <2>4 DEF Awaited, Waiting
    <2>5. CASE s.op = "rollback"
      BY <2>5 DEF Awaited, Waiting
    <2> QED BY <2>1, <2>2, <2>3, <2>4, <2>5 DEF Ops
  <1>2. ASSUME NEW o \in Ops, NEW a \in Actors
        PROVE  [op |-> o, by |-> a] \in Awaited <=> Waiting(o, a)
    <2> DEFINE s == [op |-> o, by |-> a]
    <2>1. s \in Statement /\ s.op = o /\ s.by = a
      BY DEF Statement
    <2> HIDE DEF s
    <2>2. s \in Awaited <=> Waiting(o, a)
      BY <2>1, <1>1
    <2> QED BY <2>2 DEF s
  <1> QED BY <1>1, <1>2

(* The same after a step. *)
LEMMA AwaitedSenderNext ==
  ASSUME NEW o \in Ops, NEW a \in Actors, Waiting(o, a)'
  PROVE  [op |-> o, by |-> a] \in Awaited'
  <1> DEFINE s == [op |-> o, by |-> a]
  <1>1. s \in Statement /\ s.op = o /\ s.by = a
    BY DEF Statement
  <1> HIDE DEF s
  <1>2. s \in Awaited'
    <2>2. CASE o = "set"
      BY <1>1, <2>2 DEF Awaited, Waiting
    <2>3. CASE o = "query"
      BY <1>1, <2>3 DEF Awaited, Waiting
    <2>4. CASE o = "savepoint"
      BY <1>1, <2>4 DEF Awaited, Waiting
    <2>5. CASE o = "rollback"
      BY <1>1, <2>5 DEF Awaited, Waiting
    <2> QED BY <2>2, <2>3, <2>4, <2>5 DEF Ops
  <1> QED BY <1>2 DEF s

(* A statement on its way, by what it is. *)
LEMMA OnItsWay ==
  ASSUME Sent, NEW i \in 1 .. Len(pipe)
  PROVE  pipe[i] \in Awaited /\ pipe[i].op \in Ops /\ pipe[i].by \in Actors
         /\ Waiting(pipe[i].op, pipe[i].by)
  <1>1. pipe[i] \in Awaited /\ pipe[i] \in Statement
    BY DEF Sent, Awaited
  <1> QED BY <1>1, AwaitedSender DEF Statement

-----------------------------------------------------------------------------
(* The SAVEPOINTs that were run. *)

Mark(f) == [set |-> NoId, by |-> f]
IsMark(i) == log[i].set = NoId
Marks     == [f \in Frames |-> {i \in 1 .. Len(log) : log[i] = Mark(f)}]

(* A frame's SAVEPOINT, once run, is found in the log until an outer one is  *)
(* rolled back, once, and after those of the frames around it.               *)
Marked ==
    /\ \A f \in Frames : HasSavepoint(f) => Marks[f] # {}
    /\ \A i \in 1 .. n : pipe[i].op = "savepoint" => Marks[pipe[i].by] # {}
    /\ \A i \in n + 1 .. Len(pipe) : pipe[i].op = "savepoint" => Marks[pipe[i].by] = {}
    /\ \A i \in 1 .. Len(log) : IsMark(i) =>
          log[i].by \in Frames /\ stage[log[i].by] \notin {"idle", "queued"}
    /\ \A i, j \in 1 .. Len(log) : IsMark(i) /\ log[j] = log[i] => i = j
    /\ \A f, g \in Open : lvl[f] < lvl[g] =>
          \A i \in Marks[f], j \in Marks[g] : i < j

(* ROLLBACK TO leaves the log up to the frame's mark. *)
LEMMA Cut ==
  ASSUME Typed, Marked, NEW f \in Frames, Marks[f] # {}
  PROVE  \E k \in Marks[f] :
           /\ k \in 1 .. Len(log) /\ log[k] = Mark(f) /\ PositionOf(f) = k
           /\ CutTo(f) \in Seq([set : Tenants, by : Contexts \cup Tasks])
           /\ Len(CutTo(f)) = k /\ k \in Nat
           /\ \A i \in 1 .. k : CutTo(f)[i] = log[i]
  <1> DEFINE E == [set : Tenants, by : Contexts \cup Tasks]
  <1>1. log \in Seq(E) /\ DOMAIN log = 1 .. Len(log) /\ Len(log) \in Nat
    BY LenProperties DEF Typed
  <1>2. PICK k \in 1 .. Len(log) : log[k] = Mark(f)
    BY DEF Marks
  <1>3. \A i \in DOMAIN log : log[i].by = f /\ log[i].set = NoId <=> i = k
    <2>1. \A i \in 1 .. Len(log) : log[i] \in E
      BY <1>1, ElementOfSeq
    <2>2. \A i \in 1 .. Len(log) : log[i].by = f /\ log[i].set = NoId => log[i] = Mark(f)
      BY <2>1 DEF Mark
    <2>3. \A i \in 1 .. Len(log) : log[i] = Mark(f) => i = k
      BY <1>2 DEF Marked, IsMark, Mark
    <2> QED BY <1>1, <1>2, <2>2, <2>3 DEF Mark
  <1>4. (CHOOSE i \in DOMAIN log : log[i].by = f /\ log[i].set = NoId) = k
    BY <1>1, <1>2, <1>3
  <1>5. CutTo(f) = SubSeq(log, 1, k) /\ PositionOf(f) = k
    BY <1>4 DEF CutTo, PositionOf
  <1>6. k \in Nat /\ k >= 1 /\ \A i \in 1 .. k : log[i] \in E
    <2>1. \A i \in 1 .. Len(log) : log[i] \in E
      BY <1>1, ElementOfSeq
    <2>2. 1 .. k \subseteq 1 .. Len(log)
      BY <1>1
    <2> QED BY <1>1, <2>1, <2>2
  <1>7. /\ SubSeq(log, 1, k) \in Seq(E) /\ Len(SubSeq(log, 1, k)) = k
        /\ \A i \in 1 .. k : SubSeq(log, 1, k)[i] = log[i]
    BY <1>6, SubSeqProperties
  <1> QED BY <1>2, <1>5, <1>7 DEF Marks

(* The calls that awaited a set_config send their queries in some order. *)
LEMMA Awakened ==
  ASSUME Typed, NEW a \in Actors, SetAnswered(a)
  PROVE  \E q \in Seq(Statement) :
           /\ wire' = wire \o q
           /\ \A i \in 1 .. Len(q) :
                /\ q[i].op = "query" /\ q[i].by \in Tasks
                /\ place[q[i].by] = "claiming" /\ waits[q[i].by] = a
           /\ \A i, j \in 1 .. Len(q) : q[i].by = q[j].by => i = j
  <1> DEFINE waiting == {t \in Tasks : place[t] = "claiming" /\ waits[t] = a}
  <1>1. PICK order \in [1 .. Cardinality(waiting) -> waiting] :
          /\ \A i, j \in DOMAIN order : order[i] = order[j] => i = j
          /\ wire' = wire \o [i \in DOMAIN order |-> [op |-> "query", by |-> order[i]]]
    BY DEF SetAnswered
  <1>2. Cardinality(waiting) \in Nat
    <2>1. waiting \subseteq Tasks /\ IsFiniteSet(Tasks)
      BY BindingAssumption
    <2> QED BY <2>1, FS_Subset, FS_CardinalityType
  <1> DEFINE m == Cardinality(waiting)
             q == [i \in 1 .. m |-> [op |-> "query", by |-> order[i]]]
  <1>3. q \in Seq(Statement) /\ Len(q) = m
    <2>1. \A i \in 1 .. m : [op |-> "query", by |-> order[i]] \in Statement
      BY <1>1 DEF Statement, Ops, Actors
    <2>2. q \in [1 .. m -> Statement]
      BY <2>1
    <2> QED BY <1>2, <2>2, SeqDef
  <1>4. DOMAIN order = 1 .. m
    BY <1>1
  <1>5. wire' = wire \o q
    BY <1>1, <1>4
  <1>6. ASSUME NEW i \in 1 .. m
        PROVE  q[i].op = "query" /\ q[i].by = order[i] /\ order[i] \in waiting
    BY <1>1
  <1>7. \A i, j \in 1 .. m : order[i] = order[j] => i = j
    BY <1>1, <1>4
  <1>8. \A i, j \in 1 .. m : q[i].by = q[j].by => i = j
    BY <1>6, <1>7
  <1>9. /\ \A i \in 1 .. Len(q) :
                /\ q[i].op = "query" /\ q[i].by \in Tasks
                /\ place[q[i].by] = "claiming" /\ waits[q[i].by] = a
        /\ \A i, j \in 1 .. Len(q) : q[i].by = q[j].by => i = j
    <2> HIDE DEF q, m
    <2> QED BY <1>3, <1>6, <1>8
  <1> HIDE DEF q, m
  <1> QED BY <1>3, <1>5, <1>9

-----------------------------------------------------------------------------
(* Types. *)

(* The variables have their types at BEGIN. *)
LEMMA TypedInit ==
  Init => Typed
  <1> SUFFICES ASSUME Init PROVE Typed
    OBVIOUS
  <1>1. Ids \subseteq Tenants /\ NoId \in Tenants
    BY DEF Tenants
  <1>2. log \in Seq([set : Tenants, by : Contexts \cup Tasks])
    <2> DEFINE E == [set : Tenants, by : Contexts \cup Tasks]
               s == [set |-> bound, by |-> Root]
    <2>1. s \in E
      BY <1>1 DEF Init, Contexts
    <2>2. <<s>> \in Seq(E) /\ << >> \in Seq(E)
      BY <2>1
    <2> QED BY <2>2 DEF Init
  <1> QED BY <1>1, <1>2 DEF Init, Typed, Stages, Places, Contexts, Actors

(* PostgreSQL running a statement keeps the types. *)
LEMMA ExecuteTyped ==
  ASSUME Typed, Sent, Marked, Execute
  PROVE  Typed'
  <1> DEFINE s == Head(wire)
             E == [set : Tenants, by : Contexts \cup Tasks]
  <1>1. /\ wire' \in Seq(Statement) /\ answers' \in Seq(Statement) /\ s \in Statement
        /\ n \in Nat /\ n + 1 \in 1 .. Len(pipe) /\ pipe[n + 1] = s
    BY RunPipe, Piped DEF Execute
  <1>2. s \in Awaited
    BY <1>1 DEF Sent
  <1>3. s.op \in Ops /\ s.by \in Actors
    BY <1>1 DEF Statement
  <1> HIDE DEF s
  <1>4. log' \in Seq(E)
    <2>1. CASE s.op = "set"
      <3>1. log' = Append(log, [set |-> wants[s.by], by |-> s.by])
        BY <2>1 DEF Execute, s
      <3>2. [set |-> wants[s.by], by |-> s.by] \in E
        BY <1>3 DEF Typed, Actors, Contexts
      <3> QED BY <3>1, <3>2, AppendProperties DEF Typed
    <2>2. CASE s.op = "savepoint"
      <3>1. log' = Append(log, [set |-> NoId, by |-> s.by])
        BY <2>2 DEF Execute, s
      <3>2. [set |-> NoId, by |-> s.by] \in E
        BY <1>2, <2>2 DEF Awaited, Contexts, Tenants
      <3> QED BY <3>1, <3>2, AppendProperties DEF Typed
    <2>3. CASE s.op = "rollback"
      <3>1. s.by \in Frames /\ Marks[s.by] # {}
        BY <1>2, <2>3 DEF Awaited, Marked, HasSavepoint
      <3>2. log' = CutTo(s.by)
        BY <2>3 DEF Execute, s
      <3> QED BY <3>1, <3>2, Cut
    <2>4. CASE s.op = "query"
      BY <2>4 DEF Execute, s, Typed
    <2> QED BY <1>3, <2>1, <2>2, <2>3, <2>4 DEF Ops
  <1>5. ranUnder' \in [Tasks -> Tenants]
    <2>1. SettingIn(log) \in Tenants
      <3> DEFINE sets == {i \in DOMAIN log : log[i].set # NoId}
      <3>1. CASE sets = {}
        BY <3>1 DEF SettingIn, Tenants
      <3>2. CASE sets # {}
        <4> DEFINE k == CHOOSE i \in sets : \A j \in sets : j <= i
        <4>1. Len(log) \in Nat /\ sets \in SUBSET (1 .. Len(log))
          BY LenProperties DEF Typed
        <4>2. k \in sets
          BY <4>1, <3>2, Greatest
        <4>3. SettingIn(log) = log[k].set
          BY <3>2 DEF SettingIn
        <4>4. \A i \in 1 .. Len(log) : log[i] \in E
          BY ElementOfSeq DEF Typed
        <4> QED BY <4>1, <4>2, <4>3, <4>4
      <3> QED BY <3>1, <3>2
    <2> QED BY <2>1, <1>3 DEF Execute, Typed
  <1> QED BY <1>1, <1>4, <1>5 DEF Execute, Typed, calls, record

(* The statements stay statements. *)
LEMMA PipeTyped ==
  ASSUME Typed, Next, ~ Execute
  PROVE  wire' \in Seq(Statement) /\ answers' \in Seq(Statement)
  <1>0. wire \in Seq(Statement) /\ answers \in Seq(Statement)
    BY DEF Typed
  <1>1. ASSUME NEW t \in Tasks, NEW c \in Contexts, NEW id \in Ids, Start(t, c, id)
        PROVE  wire' \in Seq(Statement) /\ answers' = answers
    <2>1. t \in Actors /\ "set" \in Ops /\ "query" \in Ops /\ answers' = answers
      BY <1>1 DEF Start, Actors, Ops
    <2>2. Send("set", t) \/ Send("query", t) \/ wire' = wire
      BY <1>1 DEF Start, ClaimFirst, ClaimShared
    <2> QED BY <1>0, <2>1, <2>2, SendPipe
  <1>2. ASSUME NEW f \in Frames, OpenFrame(f) \/ FailFrame(f)
        PROVE  wire' \in Seq(Statement) /\ answers' = answers
    <2>1. f \in Actors /\ "savepoint" \in Ops /\ "rollback" \in Ops /\ answers' = answers
      BY <1>2 DEF OpenFrame, FailFrame, Actors, Ops
    <2>2. Send("savepoint", f) \/ Send("rollback", f)
      BY <1>2 DEF OpenFrame, FailFrame
    <2> QED BY <2>1, <2>2, SendPipe
  <1>3. ASSUME NEW f \in Frames, ReleaseFrame(f) \/ \E c \in Contexts, id \in Tenants : CallFrame(f, c, id)
        PROVE  wire' = wire /\ answers' = answers
    BY <1>3 DEF ReleaseFrame, CallFrame
  <1>4. ASSUME NEW t \in Tasks, QueryAnswered(t)
        PROVE  wire' = wire /\ answers' \in Seq(Statement)
    <2>1. Answered("query", t) /\ wire' = wire
      BY <1>4 DEF QueryAnswered
    <2> QED BY <2>1, HandlePipe
  <1>5. ASSUME NEW f \in Frames, RollbackAnswered(f)
        PROVE  wire' = wire /\ answers' \in Seq(Statement)
    <2>1. Answered("rollback", f) /\ wire' = wire
      BY <1>5 DEF RollbackAnswered
    <2> QED BY <2>1, HandlePipe
  <1>6. ASSUME NEW f \in Frames, SavepointAnswered(f)
        PROVE  wire' \in Seq(Statement) /\ answers' \in Seq(Statement)
    <2>1. f \in Actors /\ "set" \in Ops /\ "rollback" \in Ops /\ Answered("savepoint", f)
      BY <1>6 DEF SavepointAnswered, Actors, Ops
    <2>2. Send("set", f) \/ Send("rollback", f) \/ wire' = wire
      BY <1>6 DEF SavepointAnswered, ClaimFirst, ClaimShared
    <2> QED BY <1>0, <2>1, <2>2, HandlePipe, HandleSendPipe
  <1>7. ASSUME NEW a \in Actors, SetAnswered(a)
        PROVE  wire' \in Seq(Statement) /\ answers' \in Seq(Statement)
    <2>1. Answered("set", a)
      BY <1>7 DEF SetAnswered
    <2> QED BY <1>7, <2>1, Awakened, HandlesPipe
  <1> QED BY <1>0, <1>1, <1>2, <1>3, <1>4, <1>5, <1>6, <1>7 DEF Next

(* A claim keeps the record a record. *)
LEMMA ClaimTyped ==
  ASSUME Typed, NEW a \in Actors, NEW id \in Tenants,
         ClaimFirst(a, id) \/ ClaimShared(a, id) \/ ClaimReady(id) \/ UNCHANGED <<waits, record>>
  PROVE  /\ waits' \in [Actors -> Actors \cup {Nobody}]
         /\ bound' \in Tenants /\ level' \in Nat /\ openLevel' = openLevel
         /\ ready' \in Actors \cup {Nobody} /\ settled' = settled
         /\ level' \in {level, openLevel}
  <1>1. CASE ClaimFirst(a, id)
    BY <1>1 DEF Typed, ClaimFirst
  <1>2. CASE ClaimShared(a, id)
    BY <1>2 DEF Typed, ClaimShared, record
  <1>3. CASE ClaimReady(id) \/ UNCHANGED <<waits, record>>
    BY <1>3 DEF Typed, ClaimReady, record
  <1> QED BY <1>1, <1>2, <1>3

(* Every step keeps the types. *)
LEMMA TypedNext ==
  ASSUME Typed, Sent, Marked, Next
  PROVE  Typed'
  <1>1. CASE Execute
    BY <1>1, ExecuteTyped
  <1> SUFFICES ASSUME ~ Execute PROVE Typed'
    BY <1>1
  <1>2. wire' \in Seq(Statement) /\ answers' \in Seq(Statement)
    BY PipeTyped
  <1>3. Ids \subseteq Tenants /\ NoId \in Tenants /\ Tasks \subseteq Actors /\ Frames \subseteq Actors
        /\ Frames \subseteq Contexts
    BY DEF Tenants, Actors, Contexts
  <1>4. log' = log /\ ranUnder' = ranUnder
    BY DEF Next, Start, CallFrame, OpenFrame, ReleaseFrame, FailFrame, SetAnswered,
           QueryAnswered, SavepointAnswered, RollbackAnswered, db
  <1>5. ASSUME NEW t \in Tasks, NEW c \in Contexts, NEW id \in Ids, Start(t, c, id)
        PROVE  Typed'
    <2>1. t \in Actors /\ id \in Tenants
      BY <1>3
    <2>2. ClaimFirst(t, id) \/ ClaimShared(t, id) \/ ClaimReady(id) \/ UNCHANGED <<waits, record>>
      BY <1>5 DEF Start
    <2>3. /\ waits' \in [Actors -> Actors \cup {Nobody}]
          /\ bound' \in Tenants /\ level' \in Nat /\ openLevel' = openLevel
          /\ ready' \in Actors \cup {Nobody} /\ settled' = settled
      BY <2>1, <2>2, ClaimTyped
    <2>4. place' \in [Tasks -> Places]
      BY <1>5 DEF Typed, Start, Places
    <2>5. /\ context' \in [Tasks -> Contexts] /\ wants' \in [Actors -> Tenants]
          /\ stage' = stage /\ parent' = parent /\ lvl' = lvl
      BY <1>5, <2>1 DEF Typed, Start
    <2> QED BY <1>2, <1>4, <2>3, <2>4, <2>5 DEF Typed
  <1>6. ASSUME NEW f \in Frames, NEW c \in Contexts, NEW id \in Tenants, CallFrame(f, c, id)
        PROVE  Typed'
    <2>1. lvl' \in [Contexts -> Nat \ {0}]
      BY <1>3, <1>6 DEF Typed, CallFrame
    <2> QED BY <1>2, <1>3, <1>4, <1>6, <2>1 DEF Typed, CallFrame, Stages, record
  <1>7. ASSUME NEW f \in Frames, OpenFrame(f) \/ FailFrame(f)
        PROVE  Typed'
    <2>1. openLevel' \in Nat \ {0}
      BY <1>3, <1>7 DEF Typed, OpenFrame, FailFrame, record
    <2> QED BY <1>2, <1>3, <1>4, <1>7, <2>1 DEF Typed, OpenFrame, FailFrame, Stages, record
  <1>8. ASSUME NEW f \in Frames, ReleaseFrame(f) \/ RollbackAnswered(f)
        PROVE  Typed'
    <2>1. lvl[parent[f]] \in Nat \ {0}
      BY DEF Typed
    <2>2. openLevel' \in Nat \ {0} /\ level' \in Nat /\ bound' \in Tenants
          /\ ready' \in Actors \cup {Nobody} /\ settled' = settled
      BY <1>3, <1>8, <2>1 DEF Typed, ReleaseFrame, RollbackAnswered
    <2>3. stage' \in [Frames -> Stages]
      BY <1>8 DEF Typed, ReleaseFrame, RollbackAnswered, Stages
    <2> QED BY <1>2, <1>4, <1>8, <2>2, <2>3 DEF Typed, ReleaseFrame, RollbackAnswered
  <1>9. ASSUME NEW t \in Tasks, QueryAnswered(t)
        PROVE  Typed'
    BY <1>2, <1>4, <1>9 DEF Typed, QueryAnswered, Places, record
  <1>10. ASSUME NEW a \in Actors, SetAnswered(a)
         PROVE  Typed'
    BY <1>2, <1>4, <1>10 DEF Typed, SetAnswered, Places, Stages
  <1>11. ASSUME NEW f \in Frames, SavepointAnswered(f)
         PROVE  Typed'
    <2>1. /\ stage' \in [Frames -> Stages] /\ waits' \in [Actors -> Actors \cup {Nobody}]
          /\ bound' \in Tenants /\ level' \in Nat /\ openLevel' = openLevel
          /\ ready' \in Actors \cup {Nobody} /\ settled' = settled
      <3>1. f \in Actors /\ wants[f] \in Tenants
        BY <1>3 DEF Typed
      <3>2. \/ ClaimFirst(f, wants[f]) \/ ClaimShared(f, wants[f]) \/ ClaimReady(wants[f])
            \/ UNCHANGED <<waits, record>>
        BY <1>11 DEF SavepointAnswered
      <3>3. stage' \in [Frames -> Stages]
        BY <1>11 DEF Typed, SavepointAnswered, Stages
      <3> QED BY <3>1, <3>2, <3>3, ClaimTyped
    <2> QED BY <1>2, <1>4, <1>11, <2>1 DEF Typed, SavepointAnswered
  <1> QED BY <1>5, <1>6, <1>7, <1>8, <1>9, <1>10, <1>11 DEF Next

-----------------------------------------------------------------------------
(* The open frames. *)

(* At BEGIN no frame is open. *)
LEMMA ChainedInit ==
  ASSUME Init
  PROVE  Chained /\ Depth
  <1>1. Open = {} /\ Called = {} /\ Cardinality(Called) = 0
    BY FS_EmptySet DEF Init, Open, Called
  <1>2. Root \in Contexts /\ \A c \in Contexts : lvl[c] = 1
    BY DEF Init, Contexts
  <1>3. level <= openLevel
    BY DEF Init
  <1> QED BY <1>1, <1>2, <1>3 DEF Init, Chained, Depth, Contexts

(* Open frames may change their stage, if none of their own is open when     *)
(* they stop running.                                                        *)
LEMMA ChainKept ==
  ASSUME Typed, Typed', Chained, parent' = parent, lvl' = lvl, openLevel' = openLevel,
         level' \in {level, openLevel},
         \A f \in Frames : \/ stage'[f] = stage[f]
                           \/ /\ f \in Open /\ stage'[f] \in {"binding", "running", "undoing"}
                              /\ stage[f] = "running" => FramesClosed(f)
  PROVE  Chained'
  <1>1. Open' = Open
    BY DEF Open
  <1>2. ASSUME NEW f \in Frames, stage'[f] \notin {"idle", "closed"}
        PROVE  Runs(parent[f])' /\ stage[f] \notin {"idle", "closed"}
    <2>1. stage[f] \notin {"idle", "closed"}
      BY <1>2 DEF Open
    <2>2. Runs(parent[f])
      BY <2>1 DEF Chained
    <2> QED BY <2>1, <2>2 DEF Runs, FramesClosed, Open
  <1> QED BY <1>1, <1>2 DEF Chained, Typed

(* The innermost frame, if one is open: it has no open frame of its own.     *)
LEMMA Innermost ==
  ASSUME Typed, Chained, NEW c \in Open \cup {Root},
         \A g \in Open : parent[g] # c
  PROVE  lvl[c] = openLevel /\ \A g \in Open : lvl[g] = openLevel => g = c
  <1>1. c \in Contexts /\ Open \subseteq Frames
    BY DEF Open, Contexts
  <1>2. lvl[c] = openLevel
    BY <1>1 DEF Chained, Typed
  <1>3. ASSUME NEW g \in Open, lvl[g] = openLevel PROVE g = c
    <2>1. CASE c \in Open
      BY <1>2, <1>3, <2>1 DEF Chained
    <2>2. CASE c = Root
      <3>1. lvl[g] = lvl[parent[g]] + 1 /\ lvl[parent[g]] \in Nat \ {0} /\ lvl[Root] = 1
        BY <1>1 DEF Chained, Open, Typed
      <3> QED BY <1>2, <1>3, <2>2, <3>1
    <2> QED BY <2>1, <2>2
  <1> QED BY <1>2, <1>3

(* A frame that is being opened, bound or rolled back is the innermost. *)
LEMMA NotRunningInnermost ==
  ASSUME Typed, Chained, NEW f \in Open, stage[f] # "running"
  PROVE  lvl[f] = openLevel /\ \A g \in Open : lvl[g] = openLevel => g = f
  <1>1. ASSUME NEW g \in Open PROVE parent[g] # f
    <2>1. Runs(parent[g]) /\ f # Root
      BY BindingAssumption DEF Chained, Open
    <2> QED BY <2>1 DEF Runs
  <1> QED BY <1>1, Innermost

(* The innermost frame closes. *)
LEMMA ChainShortened ==
  ASSUME Typed, Typed', Chained, NEW f \in Open, \A g \in Open : parent[g] # f,
         FramesClosed(f),
         parent' = parent, lvl' = lvl, openLevel' = lvl[parent[f]],
         level' <= openLevel', stage' = [stage EXCEPT ![f] = "closed"]
  PROVE  Chained'
  <1>1. Open' = Open \ {f} /\ f \in Frames /\ f # Root
    BY BindingAssumption DEF Open, Typed
  <1>2. lvl[f] = openLevel /\ \A g \in Open : lvl[g] = openLevel => g = f
    BY Innermost
  <1>3. lvl[f] = lvl[parent[f]] + 1 /\ lvl[parent[f]] \in Nat \ {0} /\ Runs(parent[f])
    BY <1>1 DEF Chained, Open, Typed
  <1>4. parent[f] \in Open' \cup {Root}
    BY <1>1, <1>3 DEF Runs, Open
  <1>5. ASSUME NEW c \in Open' \cup {Root}
        PROVE  lvl[c] <= openLevel' /\ (lvl[c] < openLevel' => \E g \in Open' : parent[g] = c)
    <2>1. c \in Open \cup {Root} /\ c # f /\ lvl[c] \in Nat
      BY <1>1 DEF Typed, Open, Contexts
    <2>2. lvl[c] <= openLevel /\ (lvl[c] < openLevel => \E g \in Open : parent[g] = c)
      BY <2>1 DEF Chained
    <2>3. lvl[c] # openLevel
      <3>1. CASE c = Root
        <4>1. lvl[Root] = 1
          BY DEF Chained
        <4> QED BY <3>1, <4>1, <1>2, <1>3
      <3>2. CASE c \in Open
        BY <3>2, <1>2, <2>1
      <3> QED BY <2>1, <3>1, <3>2
    <2>4. lvl[c] <= openLevel' /\ openLevel \in Nat
      BY <2>1, <2>2, <2>3, <1>2, <1>3 DEF Typed
    <2>5. ASSUME lvl[c] < openLevel' PROVE \E g \in Open' : parent[g] = c
      <3>1. PICK g \in Open : parent[g] = c
        BY <2>1, <2>2, <2>3, <2>4
      <3>2. lvl[g] = lvl[c] + 1
        BY <3>1 DEF Chained, Open
      <3>3. g # f
        BY <3>2, <2>5, <1>2, <1>3, <2>1
      <3> QED BY <3>1, <3>3, <1>1
    <2> QED BY <2>4, <2>5
  <1>6. ASSUME NEW g \in Frames, stage'[g] \notin {"idle", "closed"}
        PROVE  Runs(parent[g])' /\ lvl[g] = lvl[parent[g]] + 1
    <2>1. g # f /\ stage[g] \notin {"idle", "closed"} /\ parent[g] # f
      BY <1>6, <1>1 DEF Typed, FramesClosed
    <2>2. Runs(parent[g]) /\ lvl[g] = lvl[parent[g]] + 1
      BY <2>1 DEF Chained
    <2> QED BY <2>1, <2>2 DEF Runs, Typed
  <1> QED BY <1>1, <1>4, <1>5, <1>6 DEF Chained

(* An answer is the one its actor waits for. *)
LEMMA Answering ==
  ASSUME Typed, Sent, NEW o, NEW a, Answered(o, a)
  PROVE  a \in Actors /\ o \in Ops /\ Waiting(o, a)
  <1>1. answers # << >> /\ Head(answers) = [op |-> o, by |-> a]
    BY DEF Answered
  <1>2. n \in Nat /\ n >= 1
    BY <1>1, EmptySeq, LenProperties DEF n, Typed
  <1>3. Head(answers) = answers[1]
    BY <1>2 DEF Typed, n
  <1>4. 1 \in 1 .. n /\ 1 \in 1 .. Len(pipe)
    BY <1>2, Piped
  <1>5. pipe[1] = [op |-> o, by |-> a]
    BY <1>1, <1>3, <1>4, Piped
  <1> QED BY <1>4, <1>5, OnItsWay

(* A record of no tenant has no level. *)
Unbound == bound = NoId => level = 0

(* Every step keeps a record of no tenant without a level. *)
LEMMA UnboundNext ==
  ASSUME Typed, Unbound, Next
  PROVE  Unbound'
  <1>1. ASSUME NEW t \in Tasks, NEW c \in Contexts, NEW id \in Ids, Start(t, c, id)
        PROVE  Unbound'
    BY <1>1, BindingAssumption DEF Start, ClaimFirst, ClaimShared, ClaimReady, record, Unbound
  <1>2. ASSUME NEW f \in Frames, SavepointAnswered(f)
        PROVE  Unbound'
    BY <1>2 DEF SavepointAnswered, ClaimFirst, ClaimShared, ClaimReady, record, Unbound
  <1>3. ASSUME NEW f \in Frames, ReleaseFrame(f) \/ RollbackAnswered(f)
        PROVE  Unbound'
    <2>1. lvl[parent[f]] \in Nat
      BY DEF Typed
    <2> QED BY <1>3, <2>1 DEF ReleaseFrame, RollbackAnswered, Unbound
  <1>4. ASSUME bound' = bound, level' = level
        PROVE  Unbound'
    BY <1>4 DEF Unbound
  <1> QED BY <1>1, <1>2, <1>3, <1>4
          DEF Next, CallFrame, OpenFrame, FailFrame, Execute, QueryAnswered, SetAnswered, record

(* Every step keeps the open frames nested. *)
LEMMA ChainedNext ==
  ASSUME Typed, Typed', Unbound, Sent, Chained, Next
  PROVE  Chained'
  <1>1. ASSUME NEW t \in Tasks, NEW c \in Contexts, NEW id \in Ids, Start(t, c, id)
        PROVE  Chained'
    <2>1. t \in Actors /\ id \in Tenants
      BY DEF Actors, Tenants
    <2>2. ClaimFirst(t, id) \/ ClaimShared(t, id) \/ ClaimReady(id) \/ UNCHANGED <<waits, record>>
      BY <1>1 DEF Start
    <2>3. level' \in {level, openLevel} /\ openLevel' = openLevel
      BY <2>1, <2>2, ClaimTyped
    <2>4. stage' = stage /\ parent' = parent /\ lvl' = lvl
      BY <1>1 DEF Start
    <2> QED BY <2>3, <2>4, ChainKept
  <1>2. ASSUME NEW f \in Frames, NEW c \in Contexts, NEW id \in Tenants, CallFrame(f, c, id)
        PROVE  Chained'
    <2>1. /\ stage[f] = "idle" /\ Runs(c) /\ c # f /\ f # Root
          /\ stage' = [stage EXCEPT ![f] = stage'[f]] /\ stage'[f] \in {"queued", "closed"}
          /\ parent' = [parent EXCEPT ![f] = c] /\ lvl' = [lvl EXCEPT ![f] = lvl[c] + 1]
          /\ openLevel' = openLevel /\ level' = level
      BY <1>2, BindingAssumption DEF CallFrame, Runs, Typed, record
    <2>2. Open' = Open /\ f \notin Open /\ Open \subseteq Frames
      BY <2>1 DEF Open, Typed
    <2>3. \A d \in Contexts \ {f} : lvl'[d] = lvl[d]
      BY <2>1 DEF Typed
    <2>4. Root \in Contexts /\ Open \subseteq Contexts /\ f \in Contexts
      BY <2>2 DEF Contexts
    <2>5. ASSUME NEW g \in Frames, stage'[g] \notin {"idle", "closed"}
          PROVE  Runs(parent[g])' /\ lvl'[g] = lvl'[parent'[g]] + 1
      <3>1. CASE g = f
        <4>1. parent'[g] = c /\ lvl'[g] = lvl[c] + 1 /\ lvl'[c] = lvl[c]
          BY <2>1, <2>3, <2>4, <3>1 DEF Typed
        <4> QED BY <4>1, <2>1 DEF Runs, Typed
      <3>2. CASE g # f
        <4>1. stage[g] \notin {"idle", "closed"} /\ parent'[g] = parent[g] /\ parent[g] \in Contexts
          BY <2>1, <2>5, <3>2 DEF Typed
        <4>2. Runs(parent[g]) /\ lvl[g] = lvl[parent[g]] + 1
          BY <4>1 DEF Chained
        <4>3. parent[g] # f
          BY <4>2, <2>1 DEF Runs
        <4>4. lvl'[g] = lvl[g] /\ lvl'[parent[g]] = lvl[parent[g]]
          BY <2>3, <3>2, <4>1, <4>3 DEF Contexts
        <4> QED BY <4>1, <4>2, <4>3, <4>4, <2>1 DEF Runs, Typed
      <3> QED BY <3>1, <3>2
    <2>6. \A g \in Open : parent'[g] = parent[g]
      BY <2>1, <2>2 DEF Typed
    <2>7. \A d \in Open \cup {Root} : lvl'[d] = lvl[d]
      BY <2>1, <2>2, <2>3, <2>4
    <2> QED BY <2>1, <2>2, <2>5, <2>6, <2>7 DEF Chained
  <1>3. ASSUME NEW f \in Frames, OpenFrame(f)
        PROVE  Chained'
    <2>1. /\ stage[f] = "queued" /\ stage' = [stage EXCEPT ![f] = "opening"]
          /\ parent' = parent /\ lvl' = lvl /\ openLevel' = lvl[f] /\ level' = level
          /\ \A g \in Frames : parent[g] = parent[f] => stage[g] \in {"idle", "queued", "closed"}
      BY <1>3 DEF OpenFrame
    <2>2. Open' = Open \cup {f} /\ f \notin Open /\ Open \subseteq Frames /\ f # Root
      BY <2>1, BindingAssumption DEF Open, Typed
    <2>3. /\ Runs(parent[f]) /\ lvl[f] = lvl[parent[f]] + 1 /\ lvl[parent[f]] \in Nat
          /\ parent[f] \in Open \cup {Root}
      BY <2>1 DEF Chained, Typed, Runs, Open
    <2>4. \A g \in Open : parent[g] # parent[f]
      BY <2>1 DEF Open
    <2>5. lvl[parent[f]] = openLevel /\ \A g \in Open : lvl[g] = openLevel => g = parent[f]
      BY <2>3, <2>4, Innermost
    <2>6. \A d \in Open \cup {Root} : lvl[d] <= openLevel /\ lvl[d] \in Nat
      BY <2>2 DEF Chained, Typed, Contexts
    <2>7. ASSUME NEW d \in Open' \cup {Root}
          PROVE  lvl[d] <= openLevel' /\ (lvl[d] < openLevel' => \E g \in Open' : parent[g] = d)
      <3>1. CASE d = f
        BY <3>1, <2>1, <2>3
      <3>2. CASE d # f
        <4>1. d \in Open \cup {Root} /\ lvl[d] <= openLevel /\ lvl[d] \in Nat
          BY <3>2, <2>2, <2>6
        <4>2. CASE lvl[d] = openLevel
          <5>1. d = parent[f]
            <6>1. CASE d \in Open
              BY <4>2, <6>1, <2>5
            <6>2. CASE d = Root
              <7>1. lvl[Root] = 1
                BY DEF Chained
              <7>2. CASE parent[f] \in Open
                <8>1. lvl[parent[f]] = lvl[parent[parent[f]]] + 1 /\ lvl[parent[parent[f]]] \in Nat \ {0}
                  BY <7>2, <2>2 DEF Chained, Open, Typed
                <8> QED BY <8>1, <7>1, <6>2, <4>2, <2>5
              <7> QED BY <7>2, <6>2, <2>3
            <6> QED BY <6>1, <6>2, <4>1
          <5> QED BY <5>1, <4>1, <4>2, <2>1, <2>2, <2>3, <2>5
        <4>3. CASE lvl[d] < openLevel
          <5>1. \E g \in Open : parent[g] = d
            BY <4>1, <4>3 DEF Chained
          <5>2. lvl[d] <= openLevel' /\ openLevel \in Nat
            BY <4>1, <4>3, <2>1, <2>3, <2>5 DEF Typed
          <5> QED BY <5>1, <5>2, <2>2
        <4> QED BY <4>1, <4>2, <4>3 DEF Typed
      <3> QED BY <3>1, <3>2
    <2>8. ASSUME NEW g \in Frames, stage'[g] \notin {"idle", "closed"}
          PROVE  Runs(parent[g])' /\ lvl[g] = lvl[parent[g]] + 1
      <3>1. stage[g] \notin {"idle", "closed"}
        BY <2>1, <2>8 DEF Typed
      <3>2. Runs(parent[g]) /\ lvl[g] = lvl[parent[g]] + 1
        BY <3>1 DEF Chained
      <3> QED BY <3>2, <2>1 DEF Runs, Typed
    <2>9. \A g, h \in Open' : lvl[g] = lvl[h] => g = h
      <3>1. \A g \in Open : lvl[g] # lvl[f]
        BY <2>3, <2>5, <2>6
      <3>2. \A g, h \in Open : lvl[g] = lvl[h] => g = h
        BY DEF Chained
      <3> QED BY <3>1, <3>2, <2>2
    <2>10. level' <= openLevel'
      <3>1. level <= openLevel
        BY DEF Chained
      <3> QED BY <3>1, <2>1, <2>3, <2>5 DEF Typed
    <2> QED BY <2>1, <2>2, <2>7, <2>8, <2>9, <2>10 DEF Chained
  <1>4. ASSUME NEW f \in Frames, ReleaseFrame(f)
        PROVE  Chained'
    <2>1. f \in Open /\ FramesClosed(f) /\ \A g \in Open : parent[g] # f
      BY <1>4 DEF ReleaseFrame, Open, FramesClosed
    <2>2. level' <= openLevel' /\ openLevel' = lvl[parent[f]]
      <3>1. lvl[parent[f]] \in Nat /\ level \in Nat
        BY DEF Typed
      <3> QED BY <1>4, <3>1 DEF ReleaseFrame
    <2> QED BY <1>4, <2>1, <2>2, ChainShortened DEF ReleaseFrame
  <1>5. ASSUME NEW f \in Frames, FailFrame(f)
        PROVE  Chained'
    <2>1. /\ f \in Open /\ FramesClosed(f) /\ parent' = parent /\ lvl' = lvl
          /\ openLevel' = openLevel /\ level' = level
          /\ stage' = [stage EXCEPT ![f] = "undoing"]
      BY <1>5 DEF FailFrame, Open, record
    <2> QED BY <2>1, ChainKept DEF Typed
  <1>6. ASSUME Execute \/ \E t \in Tasks : QueryAnswered(t)
        PROVE  Chained'
    <2>1. stage' = stage /\ parent' = parent /\ lvl' = lvl /\ openLevel' = openLevel /\ level' = level
      BY <1>6 DEF Execute, QueryAnswered, calls, record
    <2> QED BY <2>1, ChainKept
  <1>7. ASSUME NEW a \in Actors, SetAnswered(a)
        PROVE  Chained'
    <2>1. /\ parent' = parent /\ lvl' = lvl /\ openLevel' = openLevel /\ level' = level
          /\ \A f \in Frames : stage'[f] = stage[f] \/ (stage[f] = "binding" /\ stage'[f] = "running")
      BY <1>7 DEF SetAnswered
    <2>2. \A f \in Frames : stage[f] = "binding" => f \in Open
      BY DEF Open
    <2> QED BY <2>1, <2>2, ChainKept
  <1>8. ASSUME NEW f \in Frames, SavepointAnswered(f)
        PROVE  Chained'
    <2>1. stage[f] = "opening" /\ f \in Open
      BY <1>8, Answering DEF SavepointAnswered, Waiting, Open
    <2>2. /\ parent' = parent /\ lvl' = lvl
          /\ stage' = [stage EXCEPT ![f] = stage'[f]] /\ stage'[f] \in {"binding", "running", "undoing"}
      BY <1>8 DEF SavepointAnswered, Typed
    <2>3. f \in Actors /\ wants[f] \in Tenants
      BY DEF Typed, Actors
    <2>4. \/ ClaimFirst(f, wants[f]) \/ ClaimShared(f, wants[f]) \/ ClaimReady(wants[f])
          \/ UNCHANGED <<waits, record>>
      BY <1>8 DEF SavepointAnswered
    <2>5. level' \in {level, openLevel} /\ openLevel' = openLevel
      BY <2>3, <2>4, ClaimTyped
    <2>6. \A g \in Frames : g # f => stage'[g] = stage[g]
      BY <2>2 DEF Typed
    <2> QED BY <2>1, <2>2, <2>5, <2>6, ChainKept
  <1>9. ASSUME NEW f \in Frames, RollbackAnswered(f)
        PROVE  Chained'
    <2>1. stage[f] = "undoing" /\ f \in Open
      BY <1>9, Answering DEF RollbackAnswered, Waiting, Open
    <2>2. FramesClosed(f) /\ \A g \in Open : parent[g] # f
      <3>1. ~ Runs(f)
        BY <2>1, BindingAssumption DEF Runs
      <3>2. \A g \in Frames : stage[g] \in {"idle", "closed"} \/ Runs(parent[g])
        BY DEF Chained
      <3> QED BY <3>1, <3>2 DEF FramesClosed, Open
    <2>3. level' <= openLevel' /\ openLevel' = lvl[parent[f]]
      <3>1. lvl[parent[f]] \in Nat /\ level \in Nat
        BY DEF Typed
      <3>2. bound = NoId => level = 0
        BY DEF Unbound
      <3> QED BY <1>9, <3>1, <3>2 DEF RollbackAnswered
    <2> QED BY <1>9, <2>1, <2>2, <2>3, ChainShortened DEF RollbackAnswered
  <1> QED BY <1>1, <1>2, <1>3, <1>4, <1>5, <1>6, <1>7, <1>8, <1>9 DEF Next

(* Every step keeps the levels within the calls made. *)
LEMMA DepthNext ==
  ASSUME Typed, Typed', Sent, Depth, Next
  PROVE  Depth'
  <1>1. IsFiniteSet(Called) /\ Cardinality(Called) \in Nat
    <2>1. Called \subseteq Frames /\ IsFiniteSet(Frames)
      BY BindingAssumption DEF Called
    <2> QED BY <2>1, FS_Subset, FS_CardinalityType
  <1>2. ASSUME NEW f \in Frames, NEW c \in Contexts, NEW id \in Tenants, CallFrame(f, c, id)
        PROVE  Depth'
    <2>1. /\ stage[f] = "idle" /\ stage' = [stage EXCEPT ![f] = stage'[f]] /\ stage'[f] # "idle"
          /\ lvl' = [lvl EXCEPT ![f] = lvl[c] + 1]
      BY <1>2 DEF CallFrame, Typed
    <2>2. Called' = Called \cup {f} /\ f \notin Called
      BY <2>1 DEF Called, Typed
    <2>3. Cardinality(Called') = Cardinality(Called) + 1
      BY <1>1, <2>2, FS_AddElement
    <2> QED BY <1>1, <2>1, <2>3 DEF Depth, Typed
  <1>3. ASSUME lvl' = lvl, \A f \in Frames : stage'[f] = "idle" <=> stage[f] = "idle"
        PROVE  Depth'
    <2>1. Called' = Called
      BY <1>3 DEF Called
    <2> QED BY <1>3, <2>1 DEF Depth
  <1>4. ASSUME NEW f \in Frames, stage[f] # "idle", stage'[f] # "idle", lvl' = lvl,
               stage' = [stage EXCEPT ![f] = stage'[f]]
        PROVE  Depth'
    BY <1>3, <1>4 DEF Typed
  <1>5. ASSUME NEW f \in Frames, OpenFrame(f) \/ ReleaseFrame(f) \/ FailFrame(f)
        PROVE  Depth'
    BY <1>4, <1>5 DEF OpenFrame, ReleaseFrame, FailFrame, Typed
  <1>6. ASSUME NEW f \in Frames, SavepointAnswered(f)
        PROVE  Depth'
    <2>1. stage[f] = "opening"
      BY <1>6, Answering DEF SavepointAnswered, Waiting
    <2> QED BY <1>4, <1>6, <2>1 DEF SavepointAnswered, Typed
  <1>7. ASSUME NEW f \in Frames, RollbackAnswered(f)
        PROVE  Depth'
    <2>1. stage[f] = "undoing"
      BY <1>7, Answering DEF RollbackAnswered, Waiting
    <2> QED BY <1>4, <1>7, <2>1 DEF RollbackAnswered, Typed
  <1>8. ASSUME NEW a \in Actors, SetAnswered(a)
        PROVE  Depth'
    BY <1>3, <1>8 DEF SetAnswered
  <1>9. ASSUME \/ Execute \/ \E t \in Tasks : QueryAnswered(t)
               \/ \E t \in Tasks, c \in Contexts, id \in Ids : Start(t, c, id)
        PROVE  Depth'
    BY <1>3, <1>9 DEF Execute, QueryAnswered, Start, calls
  <1> QED BY <1>2, <1>5, <1>6, <1>7, <1>8, <1>9 DEF Next

-----------------------------------------------------------------------------
(* Each actor awaits what it sent. *)

(* A step of one actor leaves what the others wait for. *)
LEMMA OthersAwait ==
  ASSUME Typed, Sent, NEW a, NEW i \in 1 .. Len(pipe), pipe[i].by # a,
         \A b \in Actors \ {a} : waits'[b] = waits[b] /\ wants'[b] = wants[b],
         \A t \in Tasks \ {a} : place'[t] = place[t],
         \A f \in Frames \ {a} : stage'[f] = stage[f]
  PROVE  pipe[i] \in Awaited'
  <1>1. pipe[i].by \in Actors /\ pipe[i] \in Awaited /\ Actors = Tasks \cup Frames
    BY PipedElement DEF Sent, Actors
  <1> DEFINE s == pipe[i]
  <1> HIDE DEF s
  <1>2. s.by \in Actors \ {a} /\ s \in Awaited
    BY <1>1 DEF s
  <1>3. waits'[s.by] = waits[s.by] /\ wants'[s.by] = wants[s.by]
        /\ (s.by \in Tasks => place'[s.by] = place[s.by])
        /\ (s.by \in Frames => stage'[s.by] = stage[s.by])
    BY <1>2 DEF Actors
  <1>4. \/ s.op = "set" /\ waits'[s.by] = s.by /\ wants'[s.by] # NoId
             /\ (s.by \in Tasks => place'[s.by] = "claiming")
             /\ (s.by \in Frames => stage'[s.by] = "binding")
        \/ s.op = "query" /\ s.by \in Tasks /\ place'[s.by] = "querying"
        \/ s.op = "savepoint" /\ s.by \in Frames /\ stage'[s.by] = "opening"
        \/ s.op = "rollback" /\ s.by \in Frames /\ stage'[s.by] = "undoing"
    BY <1>2, <1>3 DEF Awaited
  <1>5. s \in Statement
    BY <1>2 DEF Awaited
  <1> QED BY <1>4, <1>5 DEF s, Awaited

(* The statements on their way after a step that sends and handles none, *)
LEMMA SentSame ==
  ASSUME Sent, pipe' = pipe, \A i \in 1 .. Len(pipe) : pipe[i] \in Awaited'
  PROVE  Sent'
  BY DEF Sent

(* after one that sends a statement, *)
LEMMA SentMore ==
  ASSUME Typed, Sent, NEW s, Len(pipe') = Len(pipe) + 1,
         \A i \in 1 .. Len(pipe) : pipe'[i] = pipe[i], pipe'[Len(pipe) + 1] = s,
         \A i \in 1 .. Len(pipe) : pipe[i] \in Awaited' /\ pipe[i].by # s.by,
         pipe'[Len(pipe) + 1] \in Awaited'
  PROVE  Sent'
  <1>1. Len(pipe) \in Nat
    BY Piped
  <1>2. \A i \in 1 .. Len(pipe') : i \in 1 .. Len(pipe) \/ i = Len(pipe) + 1
    BY <1>1
  <1>3. \A i \in 1 .. Len(pipe') : pipe'[i] \in Awaited'
    BY <1>2
  <1>4. \A i, j \in 1 .. Len(pipe') : pipe'[i].by = pipe'[j].by => i = j
    BY <1>2 DEF Sent
  <1> QED BY <1>3, <1>4 DEF Sent

(* after one that handles an answer, *)
LEMMA SentLess ==
  ASSUME Typed, Sent, Len(pipe') = Len(pipe) - 1,
         \A i \in 1 .. Len(pipe) - 1 : pipe'[i] = pipe[i + 1],
         \A i \in 2 .. Len(pipe) : pipe[i] \in Awaited'
  PROVE  Sent'
  <1>1. Len(pipe) \in Nat
    BY Piped
  <1>2. \A i \in 1 .. Len(pipe') : i + 1 \in 2 .. Len(pipe) /\ i + 1 \in 1 .. Len(pipe)
                                   /\ i \in 1 .. Len(pipe) - 1
    BY <1>1
  <1>3. \A i \in 1 .. Len(pipe') : pipe'[i] = pipe[i + 1]
    BY <1>2
  <1>4. \A i \in 1 .. Len(pipe') : pipe'[i] \in Awaited'
    BY <1>2, <1>3
  <1>5. ASSUME NEW i \in 1 .. Len(pipe'), NEW j \in 1 .. Len(pipe'), pipe'[i].by = pipe'[j].by
        PROVE  i = j
    <2>1. i + 1 = j + 1
      BY <1>2, <1>3, <1>5 DEF Sent
    <2> QED BY <2>1
  <1> QED BY <1>4, <1>5 DEF Sent

(* and after one that handles an answer and sends a statement. *)
LEMMA SentTurned ==
  ASSUME Typed, Sent, NEW s, Len(pipe') = Len(pipe), Len(pipe) >= 1,
         \A i \in 1 .. Len(pipe) - 1 : pipe'[i] = pipe[i + 1], pipe'[Len(pipe)] = s,
         \A i \in 2 .. Len(pipe) : pipe[i] \in Awaited' /\ pipe[i].by # s.by,
         pipe'[Len(pipe)] \in Awaited'
  PROVE  Sent'
  <1>1. Len(pipe) \in Nat
    BY Piped
  <1>2. \A i \in 1 .. Len(pipe') : \/ /\ i + 1 \in 2 .. Len(pipe) /\ i + 1 \in 1 .. Len(pipe)
                                      /\ i \in 1 .. Len(pipe) - 1
                                   \/ i = Len(pipe)
    BY <1>1
  <1>3. \A i \in 1 .. Len(pipe') : pipe'[i] \in Awaited'
    BY <1>2
  <1>4. ASSUME NEW i \in 1 .. Len(pipe'), NEW j \in 1 .. Len(pipe'), pipe'[i].by = pipe'[j].by
        PROVE  i = j
    <2>1. CASE i \in 1 .. Len(pipe) - 1 /\ j \in 1 .. Len(pipe) - 1
      <3>1. i + 1 \in 1 .. Len(pipe) /\ j + 1 \in 1 .. Len(pipe)
        BY <2>1, <1>1
      <3>2. i + 1 = j + 1
        BY <1>4, <2>1, <3>1 DEF Sent
      <3> QED BY <3>2
    <2>2. CASE ~(i \in 1 .. Len(pipe) - 1 /\ j \in 1 .. Len(pipe) - 1)
      BY <1>2, <1>4, <2>2
    <2> QED BY <2>1, <2>2
  <1> QED BY <1>3, <1>4 DEF Sent

(* Who has nothing on its way. *)
LEMMA NothingSent ==
  ASSUME Typed, Sent
  PROVE  /\ \A t \in Tasks : place[t] \notin {"claiming", "querying"} =>
              \A i \in 1 .. Len(pipe) : pipe[i].by # t
         /\ \A f \in Frames : stage[f] \notin {"opening", "binding", "undoing"} =>
              \A i \in 1 .. Len(pipe) : pipe[i].by # f
  BY BindingAssumption DEF Sent, Awaited

(* The handled answer was its actor's only statement. *)
LEMMA OnlyAnswer ==
  ASSUME Typed, Sent, NEW o, NEW a, pipe[1] = [op |-> o, by |-> a]
  PROVE  \A i \in 2 .. Len(pipe) : i \in 1 .. Len(pipe) /\ pipe[i].by # a
  <1>1. Len(pipe) \in Nat /\ pipe[1].by = a
    BY Piped
  <1>2. \A i \in 2 .. Len(pipe) : i \in 1 .. Len(pipe) /\ 1 \in 1 .. Len(pipe) /\ i # 1
    BY <1>1
  <1> QED BY <1>1, <1>2 DEF Sent

(* Every step keeps each actor waiting for its own statement. *)
LEMMA SentNext ==
  ASSUME Typed, Typed', Sent, Next
  PROVE  Sent'
  <1>a. /\ "set" \in Ops /\ "query" \in Ops /\ "savepoint" \in Ops /\ "rollback" \in Ops
        /\ Tasks \subseteq Actors /\ Frames \subseteq Actors /\ Tasks \cap Frames = {}
        /\ Len(pipe) \in Nat /\ Ids \subseteq Tenants
    BY BindingAssumption, Piped DEF Ops, Actors, Tenants
  <1>1. ASSUME NEW t \in Tasks, NEW c \in Contexts, NEW id \in Ids, Start(t, c, id)
        PROVE  Sent'
    <2>1. \A i \in 1 .. Len(pipe) : pipe[i].by # t
      BY <1>1, NothingSent DEF Start
    <2>2. \A i \in 1 .. Len(pipe) : pipe[i] \in Awaited'
      <3>1. /\ \A b \in Actors \ {t} : waits'[b] = waits[b] /\ wants'[b] = wants[b]
            /\ \A u \in Tasks \ {t} : place'[u] = place[u]
            /\ stage' = stage
        BY <1>1 DEF Start, ClaimFirst, ClaimShared, ClaimReady, Typed
      <3> QED BY <2>1, <3>1, OthersAwait
    <2>3. answers' = answers /\ wants'[t] = id /\ id # NoId /\ t \notin Frames
      BY <1>1, <1>a, BindingAssumption DEF Start, Typed
    <2>4. CASE ClaimFirst(t, id) /\ place' = [place EXCEPT ![t] = "claiming"]
      <3> DEFINE s == [op |-> "set", by |-> t]
      <3>1. Send("set", t)
        BY <2>4 DEF ClaimFirst
      <3>2. s \in Awaited'
        <4>1. Waiting("set", t)'
          BY <2>3, <2>4, <1>a DEF ClaimFirst, Typed, Waiting
        <4> QED BY <4>1, <1>a, AwaitedSenderNext
      <3>3. /\ Len(pipe') = Len(pipe) + 1 /\ pipe'[Len(pipe) + 1] = s
            /\ \A i \in 1 .. Len(pipe) : pipe'[i] = pipe[i]
        BY <3>1, <2>3, <1>a, SendPipe
      <3>4. \A i \in 1 .. Len(pipe) : pipe[i].by # s.by
        BY <2>1
      <3> QED BY <2>2, <3>2, <3>3, <3>4, SentMore
    <2>5. CASE Send("query", t) /\ place' = [place EXCEPT ![t] = "querying"]
      <3> DEFINE s == [op |-> "query", by |-> t]
      <3>2. s \in Awaited'
        <4>1. Waiting("query", t)'
          BY <2>5 DEF Typed, Waiting
        <4> QED BY <4>1, <1>a, AwaitedSenderNext
      <3>3. /\ Len(pipe') = Len(pipe) + 1 /\ pipe'[Len(pipe) + 1] = s
            /\ \A i \in 1 .. Len(pipe) : pipe'[i] = pipe[i]
        BY <2>5, <2>3, <1>a, SendPipe
      <3>4. \A i \in 1 .. Len(pipe) : pipe[i].by # s.by
        BY <2>1
      <3> QED BY <2>2, <3>2, <3>3, <3>4, SentMore
    <2>6. CASE wire' = wire
      <3>1. pipe' = pipe
        BY <2>3, <2>6 DEF pipe
      <3> QED BY <2>2, <3>1, SentSame
    <2> QED BY <1>1, <2>4, <2>5, <2>6 DEF Start, ClaimShared
  <1>2. ASSUME NEW f \in Frames, ReleaseFrame(f) \/ \E c \in Contexts, id \in Tenants : CallFrame(f, c, id)
        PROVE  Sent'
    <2>1. \A i \in 1 .. Len(pipe) : pipe[i].by # f
      BY <1>2, NothingSent DEF ReleaseFrame, CallFrame
    <2>2. /\ \A b \in Actors \ {f} : waits'[b] = waits[b] /\ wants'[b] = wants[b]
          /\ place' = place
          /\ \A g \in Frames \ {f} : stage'[g] = stage[g]
      BY <1>2 DEF ReleaseFrame, CallFrame, Typed
    <2>3. pipe' = pipe
      BY <1>2 DEF ReleaseFrame, CallFrame, pipe
    <2> QED BY <2>1, <2>2, <2>3, OthersAwait, SentSame
  <1>3. ASSUME NEW f \in Frames, OpenFrame(f) \/ FailFrame(f)
        PROVE  Sent'
    <2>1. \A i \in 1 .. Len(pipe) : pipe[i].by # f
      BY <1>3, NothingSent DEF OpenFrame, FailFrame
    <2>2. /\ waits' = waits /\ wants' = wants /\ place' = place /\ answers' = answers
          /\ \A g \in Frames \ {f} : stage'[g] = stage[g]
      BY <1>3 DEF OpenFrame, FailFrame, Typed
    <2>3. PICK o \in Ops : Send(o, f) /\ [op |-> o, by |-> f] \in Awaited'
      <3>1. \E o \in Ops : Send(o, f) /\ Waiting(o, f)'
        BY <1>3, <1>a DEF OpenFrame, FailFrame, Typed, Waiting
      <3> QED BY <3>1, <1>a, AwaitedSenderNext
    <2> DEFINE s == [op |-> o, by |-> f]
    <2>4. /\ Len(pipe') = Len(pipe) + 1 /\ pipe'[Len(pipe) + 1] = s
          /\ \A i \in 1 .. Len(pipe) : pipe'[i] = pipe[i]
      BY <2>2, <2>3, <1>a, SendPipe
    <2>5. \A i \in 1 .. Len(pipe) : pipe[i] \in Awaited' /\ pipe[i].by # s.by
      BY <2>1, <2>2, OthersAwait
    <2> QED BY <2>3, <2>4, <2>5, SentMore
  <1>4. ASSUME Execute
        PROVE  Sent'
    <2>1. pipe' = pipe /\ waits' = waits /\ wants' = wants /\ place' = place /\ stage' = stage
      BY <1>4, RunPipe DEF Execute, calls
    <2> QED BY <2>1 DEF Sent, Awaited
  <1>5. ASSUME NEW a \in Actors, NEW o, Answered(o, a), wire' = wire, waits' = waits, wants' = wants,
               \A u \in Tasks \ {a} : place'[u] = place[u],
               \A g \in Frames \ {a} : stage'[g] = stage[g]
        PROVE  Sent'
    <2>1. /\ pipe[1] = [op |-> o, by |-> a] /\ Len(pipe') = Len(pipe) - 1
          /\ \A i \in 1 .. Len(pipe) - 1 : pipe'[i] = pipe[i + 1]
      BY <1>5, HandlePipe
    <2>2. \A i \in 2 .. Len(pipe) : i \in 1 .. Len(pipe) /\ pipe[i].by # a
      BY <2>1, OnlyAnswer
    <2>3. \A i \in 2 .. Len(pipe) : pipe[i] \in Awaited'
      BY <1>5, <2>2, OthersAwait
    <2> QED BY <2>1, <2>3, SentLess
  <1>6. ASSUME NEW t \in Tasks, QueryAnswered(t)
        PROVE  Sent'
    BY <1>5, <1>6, <1>a DEF QueryAnswered, Typed
  <1>7. ASSUME NEW f \in Frames, RollbackAnswered(f)
        PROVE  Sent'
    BY <1>5, <1>7, <1>a DEF RollbackAnswered, Typed
  <1>8. ASSUME NEW f \in Frames, SavepointAnswered(f)
        PROVE  Sent'
    <2>1. /\ Answered("savepoint", f) /\ wants' = wants /\ place' = place
          /\ \A b \in Actors \ {f} : waits'[b] = waits[b]
          /\ \A g \in Frames \ {f} : stage'[g] = stage[g]
      BY <1>8 DEF SavepointAnswered, ClaimFirst, ClaimShared, ClaimReady, Typed
    <2>2. CASE wire' = wire
      <3>1. /\ pipe[1] = [op |-> "savepoint", by |-> f] /\ Len(pipe') = Len(pipe) - 1
            /\ \A i \in 1 .. Len(pipe) - 1 : pipe'[i] = pipe[i + 1]
        BY <2>1, <2>2, HandlePipe
      <3>2. \A i \in 2 .. Len(pipe) : i \in 1 .. Len(pipe) /\ pipe[i].by # f
        BY <3>1, OnlyAnswer
      <3>3. \A i \in 2 .. Len(pipe) : pipe[i] \in Awaited'
        BY <2>1, <3>2, OthersAwait
      <3> QED BY <3>1, <3>3, SentLess
    <2>3. CASE \/ ClaimFirst(f, wants[f]) /\ wants[f] # NoId /\ stage' = [stage EXCEPT ![f] = "binding"]
               \/ Send("rollback", f) /\ stage' = [stage EXCEPT ![f] = "undoing"]
      <3>1. PICK o \in Ops : Send(o, f) /\ [op |-> o, by |-> f] \in Awaited'
        <4>1. \E o \in Ops : Send(o, f) /\ Waiting(o, f)'
          BY <2>1, <2>3, <1>a DEF ClaimFirst, Typed, Waiting
        <4> QED BY <4>1, <1>a, AwaitedSenderNext
      <3> DEFINE s == [op |-> o, by |-> f]
      <3>2. /\ pipe[1] = [op |-> "savepoint", by |-> f] /\ Len(pipe') = Len(pipe)
            /\ \A i \in 1 .. Len(pipe) - 1 : pipe'[i] = pipe[i + 1]
            /\ pipe'[Len(pipe)] = s /\ n >= 1
        BY <2>1, <3>1, <1>a, HandleSendPipe
      <3>3. \A i \in 2 .. Len(pipe) : i \in 1 .. Len(pipe) /\ pipe[i].by # f
        BY <3>2, OnlyAnswer
      <3>4. \A i \in 2 .. Len(pipe) : pipe[i] \in Awaited' /\ pipe[i].by # s.by
        BY <2>1, <3>3, OthersAwait
      <3>5. Len(pipe) >= 1
        BY <3>2, Piped
      <3> QED BY <3>1, <3>2, <3>4, <3>5, SentTurned
    <2> QED BY <1>8, <2>2, <2>3 DEF SavepointAnswered, ClaimShared
  <1>9. ASSUME NEW a \in Actors, SetAnswered(a)
        PROVE  Sent'
    <2>1. PICK q \in Seq(Statement) :
           /\ wire' = wire \o q
           /\ \A i \in 1 .. Len(q) :
                /\ q[i].op = "query" /\ q[i].by \in Tasks
                /\ place[q[i].by] = "claiming" /\ waits[q[i].by] = a
           /\ \A i, j \in 1 .. Len(q) : q[i].by = q[j].by => i = j
      BY <1>9, Awakened
    <2>2. Answered("set", a)
      BY <1>9 DEF SetAnswered
    <2>3. /\ pipe[1] = [op |-> "set", by |-> a] /\ n >= 1
          /\ Len(pipe') = Len(pipe) - 1 + Len(q) /\ Len(q) \in Nat
          /\ \A i \in 1 .. Len(pipe) - 1 : pipe'[i] = pipe[i + 1]
          /\ \A i \in 1 .. Len(q) : pipe'[Len(pipe) - 1 + i] = q[i]
      BY <2>1, <2>2, HandlesPipe
    <2>4. \A i \in 2 .. Len(pipe) : i \in 1 .. Len(pipe) /\ pipe[i].by # a
      BY <2>3, OnlyAnswer
    <2>5. ASSUME NEW i \in 2 .. Len(pipe)
          PROVE  /\ pipe[i] \in Awaited'
                 /\ pipe[i].by \in Tasks /\ place[pipe[i].by] = "claiming" => waits[pipe[i].by] # a
      <3>1. pipe[i] \in Awaited /\ pipe[i].by # a /\ pipe[i].by \in Actors
        BY <2>4, PipedElement DEF Sent
      <3> DEFINE s == pipe[i]
      <3> HIDE DEF s
      <3>2. s \in Awaited /\ s.by # a /\ s.by \in Actors
        BY <3>1 DEF s
      <3>3. /\ waits' = waits /\ wants' = wants
            /\ \A t \in Tasks : waits[t] # a \/ place[t] # "claiming" => place'[t] = place[t]
            /\ \A f \in Frames : waits[f] # a \/ stage[f] # "binding" => stage'[f] = stage[f]
        BY <1>9 DEF SetAnswered
      <3>4. s.op = "set" => /\ s.by \in Tasks => place'[s.by] = place[s.by]
                            /\ s.by \in Frames => stage'[s.by] = stage[s.by]
        BY <3>2, <3>3 DEF Awaited
      <3>5. s.op # "set" => /\ s.by \in Tasks => place'[s.by] = place[s.by]
                            /\ s.by \in Frames => stage'[s.by] = stage[s.by]
        BY <3>2, <3>3, <1>a DEF Awaited
      <3>6. s \in Awaited'
        <4>1. \/ s.op = "set" /\ waits'[s.by] = s.by /\ wants'[s.by] # NoId
                   /\ (s.by \in Tasks => place'[s.by] = "claiming")
                   /\ (s.by \in Frames => stage'[s.by] = "binding")
              \/ s.op = "query" /\ s.by \in Tasks /\ place'[s.by] = "querying"
              \/ s.op = "savepoint" /\ s.by \in Frames /\ stage'[s.by] = "opening"
              \/ s.op = "rollback" /\ s.by \in Frames /\ stage'[s.by] = "undoing"
          BY <3>2, <3>3, <3>4, <3>5 DEF Awaited
        <4>2. s \in Statement
          BY <3>2 DEF Awaited
        <4> QED BY <4>1, <4>2 DEF Awaited
      <3>7. s.by \in Tasks /\ place[s.by] = "claiming" => waits[s.by] # a
        BY <3>2, <1>a DEF Awaited
      <3> QED BY <3>6, <3>7 DEF s
    <2>6. ASSUME NEW i \in 1 .. Len(q)
          PROVE  /\ q[i] \in Awaited' /\ q[i].by \in Tasks /\ place[q[i].by] = "claiming"
                 /\ waits[q[i].by] = a
      <3>1. /\ q[i].op = "query" /\ q[i].by \in Tasks
            /\ place[q[i].by] = "claiming" /\ waits[q[i].by] = a
        BY <2>1
      <3>2. place'[q[i].by] = "querying"
        BY <1>9, <3>1 DEF SetAnswered
      <3> QED BY <3>1, <3>2 DEF Awaited
    <2>7. \A i \in 1 .. Len(pipe') :
            \/ i \in 1 .. Len(pipe) - 1 /\ i + 1 \in 2 .. Len(pipe) /\ i + 1 \in 1 .. Len(pipe)
            \/ i - (Len(pipe) - 1) \in 1 .. Len(q) /\ i = Len(pipe) - 1 + (i - (Len(pipe) - 1))
      BY <2>3, <1>a
    <2> DEFINE d == Len(pipe) - 1
    <2>8. \A i \in 1 .. Len(pipe') :
            \/ i \in 1 .. d /\ i + 1 \in 2 .. Len(pipe) /\ i + 1 \in 1 .. Len(pipe)
                 /\ pipe'[i] = pipe[i + 1]
            \/ i - d \in 1 .. Len(q) /\ pipe'[i] = q[i - d]
      BY <2>3, <2>7
    <2>9. d \in Int
      BY <1>a
    <2> HIDE DEF d
    <2>10. \A i \in 1 .. Len(pipe') : pipe'[i] \in Awaited'
      BY <2>5, <2>6, <2>8
    <2>11. ASSUME NEW i \in 1 .. Len(pipe'), NEW j \in 1 .. Len(pipe'), pipe'[i].by = pipe'[j].by
           PROVE  i = j
      <3>1. CASE i + 1 \in 1 .. Len(pipe) /\ pipe'[i] = pipe[i + 1]
                 /\ j + 1 \in 1 .. Len(pipe) /\ pipe'[j] = pipe[j + 1]
        <4>1. i + 1 = j + 1
          BY <3>1, <2>11 DEF Sent
        <4> QED BY <4>1
      <3>2. CASE i - d \in 1 .. Len(q) /\ pipe'[i] = q[i - d]
                 /\ j - d \in 1 .. Len(q) /\ pipe'[j] = q[j - d]
        <4>1. i - d = j - d
          BY <3>2, <2>11, <2>1
        <4> QED BY <4>1, <2>9
      <3> QED BY <3>1, <3>2, <2>5, <2>6, <2>8, <2>11
    <2> QED BY <2>10, <2>11 DEF Sent
  <1> QED BY <1>1, <1>2, <1>3, <1>4, <1>6, <1>7, <1>8, <1>9 DEF Next

-----------------------------------------------------------------------------
(* SAVEPOINTs and their marks. *)

(* A step that leaves the log as it is, and marks no frame anew. *)
LEMMA MarkedKept ==
  ASSUME Typed, Typed', Marked, log' = log,
         \A f \in Frames : HasSavepoint(f)' => Marks[f] # {},
         \A i \in 1 .. n' : pipe'[i].op = "savepoint" =>
            Marks[pipe'[i].by] # {},
         \A i \in n' + 1 .. Len(pipe') : pipe'[i].op = "savepoint" =>
            Marks[pipe'[i].by] = {},
         \A f \in Frames : stage'[f] \in {"idle", "queued"} => stage[f] \in {"idle", "queued"},
         \A f \in Open' : (f \in Open /\ lvl'[f] = lvl[f]) \/ Marks[f] = {}
  PROVE  Marked'
  <1>1. Marks' = Marks
    BY DEF Marks
  <1>2. \A i \in 1 .. Len(log) : IsMark(i) =>
          log[i].by \in Frames /\ stage'[log[i].by] \notin {"idle", "queued"}
    BY DEF Marked
  <1>3. \A f, g \in Open' : lvl'[f] < lvl'[g] => \A i \in Marks[f], j \in Marks[g] : i < j
    BY DEF Marked
  <1> QED BY <1>1, <1>2, <1>3 DEF Marked, IsMark

(* A frame that has not sent its SAVEPOINT has no mark. *)
LEMMA Unmarked ==
  ASSUME Typed, Marked, NEW f \in Frames, stage[f] \in {"idle", "queued"}
  PROVE  Marks[f] = {}
  BY DEF Marked, Marks, IsMark, Mark

(* At BEGIN nothing is on its way, and no SAVEPOINT is taken. *)
LEMMA MarkedInit ==
  ASSUME Init
  PROVE  Marked /\ Sent /\ Unbound /\ n = 0 /\ Len(pipe) = 0
  <1>1. n = 0 /\ pipe = << >> /\ Len(pipe) = 0
    BY ConcatEmptySeq DEF Init, n, pipe
  <1>2. \A i \in 1 .. Len(log) : ~ IsMark(i)
    BY DEF Init, IsMark
  <1>3. Open = {} /\ \A f \in Frames : ~ HasSavepoint(f)
    BY DEF Init, Open, HasSavepoint
  <1> QED BY <1>1, <1>2, <1>3 DEF Marked, Sent, Unbound, Init

(* PostgreSQL running a statement keeps the marks in the frames' order. *)
LEMMA ExecuteMarked ==
  ASSUME Typed, Typed', Sent, Chained, Marked, Execute
  PROVE  Marked'
  <1> DEFINE s == Head(wire)
             m == n + 1
             E == [set : Tenants, by : Contexts \cup Tasks]
  <1>1. /\ pipe' = pipe /\ n' = m /\ n \in Nat /\ m \in 1 .. Len(pipe) /\ pipe[m] = s
        /\ Len(pipe) \in Nat /\ m = n + 1
    BY RunPipe, Piped DEF Execute
  <1>2. s.op \in Ops /\ s.by \in Actors /\ Waiting(s.op, s.by)
    BY <1>1, OnItsWay
  <1>3. stage' = stage /\ lvl' = lvl /\ Open' = Open
    BY DEF Execute, calls, Open
  <1>4. \A i \in 1 .. m : i \in 1 .. n \/ i = m
    BY <1>1
  <1>5. \A i \in m + 1 .. Len(pipe) : i \in n + 1 .. Len(pipe) /\ i \in 1 .. Len(pipe) /\ i # m
    BY <1>1
  <1>6. log \in Seq(E) /\ Len(log) \in Nat
    BY LenProperties DEF Typed
  <1>7. m \in n + 1 .. Len(pipe)
    BY <1>1
  <1> HIDE DEF s, m
  <1>8. CASE s.op \in {"set", "query"}
    <2>1. \A f \in Frames : Marks'[f] = Marks[f]
      <3>1. CASE s.op = "query"
        BY <3>1 DEF Execute, s, Marks
      <3>2. CASE s.op = "set"
        <4> DEFINE e == [set |-> wants[s.by], by |-> s.by]
        <4>1. log' = Append(log, e)
          BY <3>2 DEF Execute, s
        <4>2. e # Mark(s.by) /\ \A f : e # Mark(f)
          BY <1>2, <3>2 DEF Waiting, Mark
        <4>3. e \in E
          BY <1>2 DEF Typed, Actors, Contexts
        <4> HIDE DEF e
        <4>4. /\ Len(log') = Len(log) + 1 /\ log'[Len(log) + 1] = e
              /\ \A i \in 1 .. Len(log) : log'[i] = log[i]
          BY <4>1, <4>3, <1>6, AppendProperties
        <4> QED BY <4>2, <4>4, <1>6 DEF Marks, Mark
      <3> QED BY <1>8, <3>1, <3>2
    <2>2. \A i \in 1 .. Len(log') : IsMark(i)' => i \in 1 .. Len(log) /\ log'[i] = log[i]
      <3>1. CASE s.op = "query"
        BY <3>1 DEF Execute, s
      <3>2. CASE s.op = "set"
        <4> DEFINE e == [set |-> wants[s.by], by |-> s.by]
        <4>1. log' = Append(log, e)
          BY <3>2 DEF Execute, s
        <4>2. e.set # NoId
          BY <1>2, <3>2 DEF Waiting
        <4>3. e \in E
          BY <1>2 DEF Typed, Actors, Contexts
        <4> HIDE DEF e
        <4>4. /\ Len(log') = Len(log) + 1 /\ log'[Len(log) + 1] = e
              /\ \A i \in 1 .. Len(log) : log'[i] = log[i]
          BY <4>1, <4>3, <1>6, AppendProperties
        <4> QED BY <4>2, <4>4, <1>6 DEF IsMark
      <3> QED BY <1>8, <3>1, <3>2
    <2>3. \A i \in 1 .. Len(pipe) : pipe[i].op = "savepoint" => pipe[i].by \in Frames /\ i # m
      BY OnItsWay, <1>1, <1>8 DEF Waiting
    <2>4. \A f, g \in Open : lvl[f] < lvl[g] => \A i \in Marks'[f], j \in Marks'[g] : i < j
      BY <2>1 DEF Marked, Open
    <2>5. \A f \in Frames : HasSavepoint(f)' => Marks'[f] # {}
      BY <2>1, <1>3 DEF Marked, HasSavepoint
    <2>6. \A i \in 1 .. m : pipe[i].op = "savepoint" => Marks'[pipe[i].by] # {}
      <3>1. \A i \in 1 .. m : pipe[i].op = "savepoint" => i \in 1 .. n /\ i \in 1 .. Len(pipe)
        BY <1>1, <1>4, <1>8
      <3> QED BY <3>1, <2>1, <2>3 DEF Marked
    <2>7. \A i \in m + 1 .. Len(pipe) : pipe[i].op = "savepoint" => Marks'[pipe[i].by] = {}
      BY <1>5, <2>1, <2>3 DEF Marked
    <2>8. \A i \in 1 .. Len(log') : IsMark(i)' =>
            log'[i].by \in Frames /\ stage'[log'[i].by] \notin {"idle", "queued"}
      BY <2>2, <1>3 DEF Marked, IsMark
    <2>9. \A i, j \in 1 .. Len(log') : IsMark(i)' /\ log'[j] = log'[i] => i = j
      BY <2>2 DEF Marked, IsMark
    <2> QED BY <1>1, <1>3, <2>4, <2>5, <2>6, <2>7, <2>8, <2>9 DEF Marked
  <1>9. CASE s.op = "savepoint"
    <2> DEFINE f == s.by
    <2>1. f \in Frames /\ stage[f] = "opening" /\ f \in Open /\ Marks[f] = {}
      <3>1. f \in Frames /\ stage[f] = "opening"
        BY <1>2, <1>9 DEF Waiting
      <3> QED BY <3>1, <1>1, <1>7, <1>9 DEF Marked, Open
    <2>2. lvl[f] = openLevel /\ \A g \in Open : lvl[g] <= openLevel /\ lvl[g] \in Nat
      <3>1. lvl[f] = openLevel
        BY <2>1, NotRunningInnermost
      <3>2. \A g \in Open : g \in Contexts
        BY DEF Open, Contexts
      <3> QED BY <3>1, <3>2 DEF Chained, Typed
    <2>3. log' = Append(log, Mark(f))
      BY <1>9 DEF Execute, s, Mark
    <2>4. Mark(f) \in E
      BY <2>1 DEF Mark, Tenants, Contexts
    <2> HIDE DEF f
    <2>5. /\ Len(log') = Len(log) + 1 /\ log'[Len(log) + 1] = Mark(f)
          /\ \A i \in 1 .. Len(log) : log'[i] = log[i]
      BY <2>3, <2>4, <1>6, AppendProperties
    <2>6. \A i \in 1 .. Len(log') : i \in 1 .. Len(log) \/ i = Len(log) + 1
      BY <2>5, <1>6
    <2>7. Marks'[f] = {Len(log) + 1} /\ \A g \in Frames : g # f => Marks'[g] = Marks[g]
      <3>1. \A g \in Frames : Marks'[g] = {i \in 1 .. Len(log') : log'[i] = Mark(g)}
        BY DEF Marks, Mark
      <3>2. \A g : g # f => Mark(f) # Mark(g)
        BY DEF Mark
      <3>3. Len(log) + 1 \in 1 .. Len(log') /\ 1 .. Len(log) \subseteq 1 .. Len(log')
            /\ Len(log) + 1 \notin 1 .. Len(log)
        BY <2>5, <1>6
      <3>4. \A i \in 1 .. Len(log) : log[i] # Mark(f)
        BY <2>1 DEF Marks
      <3>5. Marks'[f] = {Len(log) + 1}
        BY <3>1, <3>3, <3>4, <2>1, <2>5, <2>6
      <3>6. ASSUME NEW g \in Frames, g # f PROVE Marks'[g] = Marks[g]
        <4>1. \A i : i \in Marks'[g] <=> i \in 1 .. Len(log') /\ log'[i] = Mark(g)
          BY <3>1
        <4>2. \A i : i \in Marks[g] <=> i \in 1 .. Len(log) /\ log[i] = Mark(g)
          BY DEF Marks
        <4>3. \A i : i \in Marks'[g] <=> i \in Marks[g]
          BY <4>1, <4>2, <3>2, <3>3, <3>6, <2>5, <2>6
        <4>4. Marks'[g] = {i \in 1 .. Len(log') : log'[i] = Mark(g)}
              /\ Marks[g] = {i \in 1 .. Len(log) : log[i] = Mark(g)}
          BY <3>1 DEF Marks
        <4> HIDE DEF Marks
        <4> QED BY <4>3, <4>4
      <3> QED BY <3>5, <3>6
    <2>8. \A i \in 1 .. Len(pipe) : pipe[i].op = "savepoint" =>
            pipe[i].by \in Frames /\ (i # m => pipe[i].by # f)
      <3>1. pipe[m].by = f
        BY <1>1 DEF f
      <3> QED BY OnItsWay, <3>1, <1>1 DEF Waiting, Sent
    <2>9. \A g \in Frames : HasSavepoint(g)' => Marks'[g] # {}
      BY <2>7, <1>3 DEF Marked, HasSavepoint
    <2>10. \A i \in 1 .. m : pipe[i].op = "savepoint" => Marks'[pipe[i].by] # {}
      <3>1. pipe[m].by = f
        BY <1>1 DEF f
      <3>2. \A i \in 1 .. n : i \in 1 .. Len(pipe) /\ i # m
        BY <1>1
      <3> QED BY <3>1, <3>2, <1>4, <2>7, <2>8 DEF Marked
    <2>11. \A i \in m + 1 .. Len(pipe) : pipe[i].op = "savepoint" => Marks'[pipe[i].by] = {}
      BY <1>5, <2>7, <2>8 DEF Marked
    <2>12. \A i \in 1 .. Len(log') : IsMark(i)' =>
             log'[i].by \in Frames /\ stage'[log'[i].by] \notin {"idle", "queued"}
      <3>1. Mark(f).by = f
        BY DEF Mark
      <3> QED BY <3>1, <2>1, <2>5, <2>6, <1>3 DEF Marked, IsMark
    <2>13. \A i, j \in 1 .. Len(log') : IsMark(i)' /\ log'[j] = log'[i] => i = j
      <3>1. \A i \in 1 .. Len(log) : log[i] # Mark(f)
        BY <2>1 DEF Marks
      <3> QED BY <3>1, <2>5, <2>6 DEF Marked, IsMark
    <2>14. \A g, h \in Open : lvl[g] < lvl[h] => \A i \in Marks'[g], j \in Marks'[h] : i < j
      <3>1. ASSUME NEW g \in Open, NEW h \in Open, lvl[g] < lvl[h],
                   NEW i \in Marks'[g], NEW j \in Marks'[h]
            PROVE  i < j
        <4>1. g # f /\ g \in Frames /\ h \in Frames
          BY <2>2, <3>1 DEF Open
        <4>2. i \in Marks[g] /\ i \in 1 .. Len(log)
          BY <4>1, <2>7 DEF Marks
        <4>3. CASE h = f
          BY <4>2, <4>3, <2>7, <1>6
        <4>4. CASE h # f
          BY <4>1, <4>2, <4>4, <2>7, <3>1 DEF Marked
        <4> QED BY <4>3, <4>4
      <3> QED BY <3>1
    <2> QED BY <1>1, <1>3, <2>9, <2>10, <2>11, <2>12, <2>13, <2>14 DEF Marked
  <1>10. CASE s.op = "rollback"
    <2> DEFINE f == s.by
    <2>1. f \in Frames /\ stage[f] = "undoing" /\ f \in Open /\ Marks[f] # {}
      <3>1. f \in Frames /\ stage[f] = "undoing"
        BY <1>2, <1>10 DEF Waiting
      <3> QED BY <3>1 DEF Marked, Open, HasSavepoint
    <2>2. lvl[f] = openLevel /\ \A g \in Open : lvl[g] = openLevel => g = f
      BY <2>1, NotRunningInnermost
    <2>3. log' = CutTo(f)
      BY <1>10 DEF Execute, s
    <2> HIDE DEF f
    <2>4. PICK k \in Marks[f] : /\ k \in 1 .. Len(log) /\ Len(log') = k /\ k \in Nat
                                /\ \A i \in 1 .. k : log'[i] = log[i]
      BY <2>1, <2>3, Cut
    <2>5. \A i \in 1 .. Len(log') : i \in 1 .. Len(log) /\ log'[i] = log[i]
      BY <2>4, <1>6
    <2>6. \A g \in Frames : Marks'[g] = {i \in Marks[g] : i <= k}
      <3>1. \A g \in Frames : Marks'[g] = {i \in 1 .. Len(log') : log'[i] = Mark(g)}
        BY DEF Marks, Mark
      <3>2. \A i \in 1 .. Len(log) : i <= k <=> i \in 1 .. Len(log')
        BY <2>4, <1>6
      <3> QED BY <3>1, <3>2, <2>5 DEF Marks
    <2>7. \A g \in Open : lvl[g] <= openLevel /\ lvl[g] \in Nat
      <3>2. \A g \in Open : g \in Contexts
        BY DEF Open, Contexts
      <3> QED BY <3>2 DEF Chained, Typed
    <2>8. ASSUME NEW g \in Frames, HasSavepoint(g) PROVE Marks'[g] # {}
      <3>1. g \in Open /\ Marks[g] # {}
        BY <2>8 DEF HasSavepoint, Open, Marked
      <3>2. PICK i \in Marks[g] : TRUE
        BY <3>1
      <3>3. CASE g = f
        BY <3>3, <2>4, <2>6
      <3>4. CASE g # f
        <4>1. lvl[g] < lvl[f]
          BY <3>1, <3>4, <2>2, <2>7, <2>1
        <4>2. i < k
          BY <4>1, <3>1, <3>2, <2>1, <2>4 DEF Marked
        <4>3. i <= k
          BY <4>2, <2>4 DEF Marks
        <4> QED BY <3>2, <4>3, <2>6
      <3> QED BY <3>3, <3>4
    <2>9. ASSUME NEW i \in 1 .. Len(pipe), pipe[i].op = "savepoint"
          PROVE  i \in n + 1 .. Len(pipe) /\ FALSE
      <3>1. pipe[i].by \in Frames /\ stage[pipe[i].by] = "opening"
        BY <2>9, OnItsWay DEF Waiting
      <3>2. pipe[i].by \in Open
        BY <3>1 DEF Open
      <3>3. lvl[pipe[i].by] = openLevel
        BY <3>1, <3>2, NotRunningInnermost
      <3>4. pipe[i].by = f
        BY <3>2, <3>3, <2>2
      <3> QED BY <3>1, <3>4, <2>1
    <2>10. \A g \in Frames : HasSavepoint(g)' => Marks'[g] # {}
      BY <2>8, <1>3 DEF HasSavepoint
    <2>11. \A i \in 1 .. m : i \in 1 .. Len(pipe)
      BY <1>1
    <2>12. \A i \in 1 .. Len(log') : IsMark(i)' =>
             log'[i].by \in Frames /\ stage'[log'[i].by] \notin {"idle", "queued"}
      BY <2>5, <1>3 DEF Marked, IsMark
    <2>13. \A i, j \in 1 .. Len(log') : IsMark(i)' /\ log'[j] = log'[i] => i = j
      BY <2>5 DEF Marked, IsMark
    <2>14. \A g, h \in Open : lvl[g] < lvl[h] => \A i \in Marks'[g], j \in Marks'[h] : i < j
      BY <2>6 DEF Marked, Open
    <2> QED BY <1>1, <1>3, <1>5, <2>9, <2>10, <2>11, <2>12, <2>13, <2>14 DEF Marked
  <1> QED BY <1>2, <1>8, <1>9, <1>10 DEF Ops

(* The SAVEPOINTs on their way, run or not, agree with the marks. *)
InStep ==
    /\ \A i \in 1 .. n : pipe[i].op = "savepoint" => Marks[pipe[i].by] # {}
    /\ \A i \in n + 1 .. Len(pipe) : pipe[i].op = "savepoint" => Marks[pipe[i].by] = {}

(* A SAVEPOINT has its mark once it is run: after a step that sends and handles nothing, *)
LEMMA InStepSame ==
  ASSUME Marked, log' = log, pipe' = pipe, n' = n
  PROVE  InStep'
  <1>1. Marks' = Marks
    BY DEF Marks, Mark
  <1> QED BY <1>1 DEF Marked, InStep

(* after one that sends a statement, *)
LEMMA InStepSent ==
  ASSUME Typed, Marked, log' = log, n' = n, Len(pipe') = Len(pipe) + 1,
         \A i \in 1 .. Len(pipe) : pipe'[i] = pipe[i],
         NEW s, pipe'[Len(pipe) + 1] = s, s.op = "savepoint" => Marks[s.by] = {}
  PROVE  InStep'
  <1>1. Marks' = Marks
    BY DEF Marks, Mark
  <1>2. n \in Nat /\ Len(pipe) \in Nat /\ n <= Len(pipe)
    BY Piped
  <1>3. \A i \in 1 .. n : i \in 1 .. Len(pipe)
    BY <1>2
  <1>4. \A i \in n + 1 .. Len(pipe) + 1 :
          (i \in n + 1 .. Len(pipe) /\ i \in 1 .. Len(pipe)) \/ i = Len(pipe) + 1
    BY <1>2
  <1>5. \A i \in 1 .. n : pipe'[i].op = "savepoint" => Marks[pipe'[i].by] # {}
    BY <1>3 DEF Marked
  <1>6. \A i \in n + 1 .. Len(pipe) + 1 : pipe'[i].op = "savepoint" => Marks[pipe'[i].by] = {}
    BY <1>4 DEF Marked
  <1> QED BY <1>1, <1>5, <1>6 DEF InStep

(* and after one that handles an answer. *)
LEMMA InStepHandled ==
  ASSUME Typed, Marked, log' = log, n >= 1, n' = n - 1,
         NEW k \in Nat, Len(pipe') = Len(pipe) - 1 + k,
         \A i \in 1 .. Len(pipe) - 1 : pipe'[i] = pipe[i + 1],
         \A i \in 1 .. k : pipe'[Len(pipe) - 1 + i].op # "savepoint"
  PROVE  InStep'
  <1>1. Marks' = Marks
    BY DEF Marks, Mark
  <1>2. n \in Nat /\ Len(pipe) \in Nat /\ n <= Len(pipe)
    BY Piped
  <1>3. \A i \in 1 .. n - 1 : i \in 1 .. Len(pipe) - 1 /\ i + 1 \in 1 .. n
    BY <1>2
  <1>4. \A i \in n - 1 + 1 .. Len(pipe') :
          \/ i \in 1 .. Len(pipe) - 1 /\ i + 1 \in n + 1 .. Len(pipe)
          \/ i - (Len(pipe) - 1) \in 1 .. k /\ i = Len(pipe) - 1 + (i - (Len(pipe) - 1))
    BY <1>2
  <1>5. ASSUME NEW i \in 1 .. n - 1, pipe'[i].op = "savepoint" PROVE Marks[pipe'[i].by] # {}
    <2>1. i \in 1 .. Len(pipe) - 1 /\ i + 1 \in 1 .. n /\ pipe'[i] = pipe[i + 1]
      BY <1>3
    <2> QED BY <2>1, <1>5 DEF Marked
  <1>6. ASSUME NEW i \in n - 1 + 1 .. Len(pipe'), pipe'[i].op = "savepoint"
        PROVE  Marks[pipe'[i].by] = {}
    <2>1. i \in 1 .. Len(pipe) - 1 /\ i + 1 \in n + 1 .. Len(pipe)
      <3> DEFINE j == i - (Len(pipe) - 1)
      <3>1. j \in 1 .. k => pipe'[Len(pipe) - 1 + j].op # "savepoint"
        OBVIOUS
      <3> QED BY <3>1, <1>4, <1>6
    <2> QED BY <2>1, <1>6 DEF Marked
  <1> QED BY <1>1, <1>5, <1>6 DEF InStep

(* Every step keeps the marks. *)
LEMMA MarkedNext ==
  ASSUME Typed, Typed', Sent, Chained, Marked, Next
  PROVE  Marked'
  <1>a. /\ "set" \in Ops /\ "query" \in Ops /\ "savepoint" \in Ops /\ "rollback" \in Ops
        /\ Tasks \subseteq Actors /\ Frames \subseteq Actors /\ Tasks \cap Frames = {}
        /\ Len(pipe) \in Nat /\ Ids \subseteq Tenants
    BY BindingAssumption, Piped DEF Ops, Actors, Tenants
  <1>b. ASSUME log' = log, InStep',
               \A f \in Frames : HasSavepoint(f)' => Marks[f] # {},
               \A f \in Frames : stage'[f] \in {"idle", "queued"} => stage[f] \in {"idle", "queued"},
               \A f \in Open' : (f \in Open /\ lvl'[f] = lvl[f]) \/ Marks[f] = {}
        PROVE  Marked'
    <2>1. Marks' = Marks
      BY <1>b DEF Marks, Mark
    <2>2. \A i \in 1 .. n' : pipe'[i].op = "savepoint" => Marks[pipe'[i].by] # {}
      BY <1>b, <2>1 DEF InStep
    <2>3. \A i \in n' + 1 .. Len(pipe') : pipe'[i].op = "savepoint" => Marks[pipe'[i].by] = {}
      BY <1>b, <2>1 DEF InStep
    <2> QED BY <1>b, <2>2, <2>3, MarkedKept
  <1>c. ASSUME log' = log, InStep', lvl' = lvl, NEW f \in Frames,
               \A g \in Frames \ {f} : stage'[g] = stage[g],
               HasSavepoint(f)' => Marks[f] # {},
               stage'[f] \in {"idle", "queued"} => stage[f] \in {"idle", "queued"},
               f \in Open' => f \in Open \/ Marks[f] = {}
        PROVE  Marked'
    <2>1. \A g \in Frames : HasSavepoint(g)' => Marks[g] # {}
      BY <1>c DEF HasSavepoint, Marked
    <2>2. \A g \in Open' : (g \in Open /\ lvl'[g] = lvl[g]) \/ Marks[g] = {}
      BY <1>c DEF Open
    <2> QED BY <1>b, <1>c, <2>1, <2>2
  <1>d. ASSUME log' = log, InStep', lvl' = lvl, stage' = stage
        PROVE  Marked'
    <2>1. \A g \in Frames : HasSavepoint(g)' => Marks[g] # {}
      BY <1>d DEF HasSavepoint, Marked
    <2>2. Open' = Open
      BY <1>d DEF Open
    <2> QED BY <1>b, <1>d, <2>1, <2>2
  <1>1. ASSUME NEW t \in Tasks, NEW c \in Contexts, NEW id \in Ids, Start(t, c, id)
        PROVE  Marked'
    <2>1. log' = log /\ lvl' = lvl /\ stage' = stage /\ answers' = answers
      BY <1>1 DEF Start, db
    <2>2. ASSUME NEW o \in {"set", "query"}, Send(o, t) PROVE InStep'
      <3> DEFINE s == [op |-> o, by |-> t]
      <3>1. o \in Ops /\ t \in Actors
        BY <1>a
      <3>2. /\ n' = n /\ Len(pipe') = Len(pipe) + 1 /\ pipe'[Len(pipe) + 1] = s
            /\ \A i \in 1 .. Len(pipe) : pipe'[i] = pipe[i]
        BY <3>1, <2>1, <2>2, SendPipe
      <3>3. s.op # "savepoint"
        OBVIOUS
      <3> QED BY <3>2, <3>3, <2>1, InStepSent
    <2>3. CASE wire' = wire
      BY <2>1, <2>3, <1>d, InStepSame DEF pipe, n
    <2> QED BY <1>1, <2>1, <2>2, <2>3, <1>d DEF Start, ClaimFirst, ClaimShared
  <1>2. ASSUME NEW f \in Frames, NEW c \in Contexts, NEW id \in Tenants, CallFrame(f, c, id)
        PROVE  Marked'
    <2>1. /\ log' = log /\ pipe' = pipe /\ n' = n /\ stage[f] = "idle"
          /\ stage'[f] \in {"queued", "closed"}
          /\ \A g \in Frames \ {f} : stage'[g] = stage[g] /\ lvl'[g] = lvl[g]
      BY <1>2 DEF CallFrame, pipe, n, db, Typed, Contexts
    <2>2. InStep'
      BY <2>1, InStepSame
    <2>3. \A g \in Frames : HasSavepoint(g)' => Marks[g] # {}
      BY <2>1 DEF HasSavepoint, Marked
    <2>4. \A g \in Open' : g \in Open /\ lvl'[g] = lvl[g]
      BY <2>1 DEF Open
    <2> QED BY <1>b, <2>1, <2>2, <2>3, <2>4
  <1>3. ASSUME NEW f \in Frames, OpenFrame(f)
        PROVE  Marked'
    <2>1. /\ log' = log /\ lvl' = lvl /\ answers' = answers /\ stage[f] = "queued"
          /\ stage'[f] = "opening" /\ \A g \in Frames \ {f} : stage'[g] = stage[g]
          /\ Send("savepoint", f)
      BY <1>3 DEF OpenFrame, db, Typed
    <2>2. Marks[f] = {}
      BY <2>1, Unmarked
    <2> DEFINE s == [op |-> "savepoint", by |-> f]
    <2>3. /\ n' = n /\ Len(pipe') = Len(pipe) + 1 /\ pipe'[Len(pipe) + 1] = s
          /\ \A i \in 1 .. Len(pipe) : pipe'[i] = pipe[i]
      BY <2>1, <1>a, SendPipe
    <2>4. s.by = f
      OBVIOUS
    <2>5. InStep'
      BY <2>1, <2>2, <2>3, <2>4, InStepSent
    <2> QED BY <1>c, <2>1, <2>2, <2>5 DEF HasSavepoint
  <1>4. ASSUME NEW f \in Frames, ReleaseFrame(f)
        PROVE  Marked'
    <2>1. /\ log' = log /\ lvl' = lvl /\ pipe' = pipe /\ n' = n
          /\ stage'[f] = "closed" /\ \A g \in Frames \ {f} : stage'[g] = stage[g]
      BY <1>4 DEF ReleaseFrame, db, Typed, pipe, n
    <2>2. InStep'
      BY <2>1, InStepSame
    <2> QED BY <1>c, <2>1, <2>2 DEF HasSavepoint, Open
  <1>5. ASSUME NEW f \in Frames, FailFrame(f)
        PROVE  Marked'
    <2>1. /\ log' = log /\ lvl' = lvl /\ answers' = answers /\ stage[f] = "running"
          /\ stage'[f] = "undoing" /\ \A g \in Frames \ {f} : stage'[g] = stage[g]
          /\ Send("rollback", f)
      BY <1>5 DEF FailFrame, db, Typed
    <2>2. Marks[f] # {} /\ f \in Open
      BY <2>1 DEF HasSavepoint, Marked, Open
    <2> DEFINE s == [op |-> "rollback", by |-> f]
    <2>3. /\ n' = n /\ Len(pipe') = Len(pipe) + 1 /\ pipe'[Len(pipe) + 1] = s
          /\ \A i \in 1 .. Len(pipe) : pipe'[i] = pipe[i]
      BY <2>1, <1>a, SendPipe
    <2>4. s.op # "savepoint"
      OBVIOUS
    <2>5. InStep'
      BY <2>1, <2>3, <2>4, InStepSent
    <2> QED BY <1>c, <2>1, <2>2, <2>5
  <1>6. ASSUME Execute
        PROVE  Marked'
    BY <1>6, ExecuteMarked
  <1>e. ASSUME log' = log, NEW o, NEW a, Answered(o, a), wire' = wire
        PROVE  InStep'
    <2>1. /\ n >= 1 /\ n' = n - 1 /\ Len(pipe') = Len(pipe) - 1 + 0
          /\ \A i \in 1 .. Len(pipe) - 1 : pipe'[i] = pipe[i + 1]
      <3>1. /\ n >= 1 /\ n' = n - 1 /\ Len(pipe') = Len(pipe) - 1
            /\ \A i \in 1 .. Len(pipe) - 1 : pipe'[i] = pipe[i + 1]
        BY <1>e, HandlePipe
      <3> QED BY <3>1, <1>a
    <2> QED BY <1>e, <2>1, InStepHandled
  <1>7. ASSUME NEW t \in Tasks, QueryAnswered(t)
        PROVE  Marked'
    BY <1>7, <1>d, <1>e DEF QueryAnswered, db
  <1>8. ASSUME NEW a \in Actors, SetAnswered(a)
        PROVE  Marked'
    <2>1. PICK q \in Seq(Statement) : wire' = wire \o q /\ \A i \in 1 .. Len(q) : q[i].op = "query"
      BY <1>8, Awakened
    <2>2. /\ log' = log /\ lvl' = lvl /\ Answered("set", a)
          /\ \A f \in Frames : stage'[f] = stage[f] \/ (stage[f] = "binding" /\ stage'[f] = "running")
      BY <1>8 DEF SetAnswered, db
    <2>3. InStep'
      <3>1. /\ n >= 1 /\ n' = n - 1 /\ Len(q) \in Nat /\ Len(pipe') = Len(pipe) - 1 + Len(q)
            /\ \A i \in 1 .. Len(pipe) - 1 : pipe'[i] = pipe[i + 1]
            /\ \A i \in 1 .. Len(q) : pipe'[Len(pipe) - 1 + i] = q[i]
        BY <2>1, <2>2, HandlesPipe
      <3>2. \A i \in 1 .. Len(q) : pipe'[Len(pipe) - 1 + i].op # "savepoint"
        BY <2>1, <3>1
      <3> QED BY <2>2, <3>1, <3>2, InStepHandled
    <2>4. \A f \in Frames : HasSavepoint(f)' => Marks[f] # {}
      BY <2>2 DEF HasSavepoint, Marked
    <2>5. \A f \in Open' : f \in Open
      BY <2>2 DEF Open
    <2> QED BY <1>b, <2>2, <2>3, <2>4, <2>5
  <1>9. ASSUME NEW f \in Frames, SavepointAnswered(f)
        PROVE  Marked'
    <2>1. /\ log' = log /\ lvl' = lvl /\ Answered("savepoint", f)
          /\ stage'[f] \in {"running", "binding", "undoing"}
          /\ \A g \in Frames \ {f} : stage'[g] = stage[g]
      BY <1>9 DEF SavepointAnswered, db, Typed
    <2>2. stage[f] = "opening" /\ f \in Open
      BY <2>1, Answering DEF Waiting, Open
    <2>3. Marks[f] # {}
      <3>1. pipe[1] = [op |-> "savepoint", by |-> f] /\ 1 \in 1 .. n
        <4>1. << >> \in Seq(Statement)
          OBVIOUS
        <4>2. answers # << >> /\ Head(answers) = [op |-> "savepoint", by |-> f]
          BY <2>1 DEF Answered
        <4>3. n \in Nat /\ n >= 1
          BY <4>2, EmptySeq, LenProperties DEF n, Typed
        <4>4. Head(answers) = answers[1] /\ 1 \in 1 .. n
          BY <4>3 DEF Typed, n
        <4> QED BY <4>2, <4>4, Piped
      <3> QED BY <3>1 DEF Marked
    <2>4. CASE wire' = wire
      BY <1>c, <1>e, <2>1, <2>2, <2>3, <2>4
    <2>5. ASSUME NEW o \in {"set", "rollback"}, Send(o, f) PROVE Marked'
      <3>1. o \in Ops /\ f \in Actors
        BY <1>a
      <3>2. /\ n >= 1 /\ n' = n - 1 /\ Len(pipe') = Len(pipe) - 1 + 1
            /\ \A i \in 1 .. Len(pipe) - 1 : pipe'[i] = pipe[i + 1]
            /\ pipe'[Len(pipe)] = [op |-> o, by |-> f]
        <4>1. /\ n >= 1 /\ n' = n - 1 /\ Len(pipe') = Len(pipe)
              /\ \A i \in 1 .. Len(pipe) - 1 : pipe'[i] = pipe[i + 1]
              /\ pipe'[Len(pipe)] = [op |-> o, by |-> f]
          BY <3>1, <2>1, <2>5, HandleSendPipe
        <4> QED BY <4>1, <1>a
      <3>3. \A i \in 1 .. 1 : pipe'[Len(pipe) - 1 + i].op # "savepoint"
        BY <3>2, <1>a
      <3>4. InStep'
        BY <2>1, <3>2, <3>3, InStepHandled
      <3> QED BY <1>c, <2>1, <2>2, <2>3, <3>4
    <2> QED BY <1>9, <2>4, <2>5 DEF SavepointAnswered, ClaimFirst, ClaimShared
  <1>10. ASSUME NEW f \in Frames, RollbackAnswered(f)
         PROVE  Marked'
    <2>1. /\ log' = log /\ lvl' = lvl /\ Answered("rollback", f) /\ wire' = wire
          /\ stage'[f] = "closed" /\ \A g \in Frames \ {f} : stage'[g] = stage[g]
      BY <1>10 DEF RollbackAnswered, db, Typed
    <2> QED BY <1>c, <1>e, <2>1 DEF HasSavepoint, Open
  <1> QED BY <1>1, <1>2, <1>3, <1>4, <1>5, <1>6, <1>7, <1>8, <1>9, <1>10 DEF Next

-----------------------------------------------------------------------------
(* Types, always. *)

IInv == Typed /\ Depth /\ Unbound /\ Chained /\ Sent /\ Marked

(* A stuttering step keeps the invariant. *)
LEMMA Stutter ==
  ASSUME IInv, UNCHANGED vars
  PROVE  IInv'
  <1>1. /\ stage' = stage /\ parent' = parent /\ lvl' = lvl /\ place' = place
        /\ context' = context /\ wants' = wants /\ waits' = waits /\ bound' = bound
        /\ level' = level /\ openLevel' = openLevel /\ ready' = ready /\ settled' = settled
        /\ wire' = wire /\ answers' = answers /\ log' = log /\ ranUnder' = ranUnder
    BY DEF vars, calls, record, db
  <1>2. Open' = Open /\ Called' = Called /\ pipe' = pipe /\ n' = n /\ Marks' = Marks
        /\ Awaited' = Awaited
    BY <1>1 DEF Open, Called, pipe, n, Marks, Mark, Awaited
  <1>3. Typed' /\ Depth' /\ Unbound'
    BY <1>1, <1>2 DEF IInv, Typed, Depth, Unbound
  <1>4. Chained' /\ Sent'
    BY <1>1, <1>2 DEF IInv, Chained, Sent, Runs
  <1>5. Marked'
    BY <1>1, <1>2 DEF IInv, Marked, HasSavepoint, IsMark
  <1> QED BY <1>3, <1>4, <1>5 DEF IInv

(* The invariant holds of every transaction, calm or not. *)
LEMMA IInvAlways ==
  Spec => []IInv
  <1>1. Init => IInv
    BY TypedInit, ChainedInit, MarkedInit DEF IInv
  <1>2. IInv /\ [Next]_vars => IInv'
    <2> SUFFICES ASSUME IInv, Next PROVE IInv'
      BY Stutter
    <2>1. Typed'
      BY TypedNext DEF IInv
    <2>2. Unbound' /\ Sent'
      BY <2>1, UnboundNext, SentNext DEF IInv
    <2>3. Chained' /\ Depth' /\ Marked'
      BY <2>1, ChainedNext, DepthNext, MarkedNext DEF IInv
    <2> QED BY <2>1, <2>2, <2>3 DEF IInv
  <1> QED BY <1>1, <1>2, PTL DEF Spec

(* Every variable keeps its type, whatever the calls and frames: in          *)
(* particular no level is deeper than the frames there are.                  *)
THEOREM TypeAlwaysCorrect ==
  Spec => []TypeOK
  <1>1. IInv => TypeOK
    <2> SUFFICES ASSUME IInv PROVE TypeOK
      OBVIOUS
    <2>1. Cardinality(Called) <= Cardinality(Frames) /\ Cardinality(Frames) \in Nat
          /\ Cardinality(Called) \in Nat
      <3>1. Called \subseteq Frames /\ IsFiniteSet(Frames)
        BY BindingAssumption DEF Called
      <3> QED BY <3>1, FS_Subset, FS_CardinalityType
    <2> DEFINE d == Cardinality(Frames) + 1
    <2>2. \A c \in Contexts : lvl[c] \in 1 .. d
      BY <2>1 DEF IInv, Typed, Depth
    <2>3. \E c \in Contexts : lvl[c] = openLevel
      BY DEF IInv, Chained, Open, Contexts
    <2>4. openLevel \in 1 .. d /\ level \in 0 .. d
      BY <2>1, <2>2, <2>3 DEF IInv, Chained, Typed
    <2> HIDE DEF d
    <2>5. lvl \in [Contexts -> 1 .. d]
      BY <2>2 DEF IInv, Typed
    <2> QED BY <2>4, <2>5 DEF IInv, Typed, TypeOK, d
  <1> QED BY <1>1, IInvAlways, PTL

-----------------------------------------------------------------------------
(* The statements on their way, as sets: run, and not yet run. *)

Ran     == {pipe[i] : i \in 1 .. n}
Unrun   == {pipe[i] : i \in n + 1 .. Len(pipe)}
Pending == Ran \cup Unrun

(* What a statement on its way is, and that its sender has no other. *)
LEMMA PendingFacts ==
  ASSUME Typed, Sent
  PROVE  /\ \A s \in Pending : s \in Statement /\ s.op \in Ops /\ s.by \in Actors
                               /\ Waiting(s.op, s.by)
         /\ \A s, u \in Pending : s.by = u.by => s = u
         /\ Ran \cap Unrun = {}
  <1>1. n \in Nat /\ Len(pipe) \in Nat /\ n <= Len(pipe)
    BY Piped
  <1>2. \A i : i \in 1 .. n \/ i \in n + 1 .. Len(pipe) <=> i \in 1 .. Len(pipe)
    BY <1>1
  <1>3. \A s \in Pending : \E i \in 1 .. Len(pipe) : s = pipe[i]
    BY <1>2 DEF Pending, Ran, Unrun
  <1>4. \A i \in 1 .. n, j \in n + 1 .. Len(pipe) : pipe[i] # pipe[j]
    <2>1. \A i \in 1 .. n, j \in n + 1 .. Len(pipe) :
             i # j /\ i \in 1 .. Len(pipe) /\ j \in 1 .. Len(pipe)
      BY <1>1
    <2> QED BY <2>1 DEF Sent
  <1>5. \A s \in Pending : s \in Awaited /\ s.op \in Ops /\ s.by \in Actors /\ Waiting(s.op, s.by)
    BY <1>3, OnItsWay
  <1> QED BY <1>3, <1>4, <1>5 DEF Sent, Ran, Unrun, Awaited

(* What is run and not run after a statement is sent, *)
LEMMA SendSets ==
  ASSUME Typed, NEW o \in Ops, NEW a \in Actors, Send(o, a), answers' = answers
  PROVE  Ran' = Ran /\ Unrun' = Unrun \cup {[op |-> o, by |-> a]}
  <1>1. /\ n' = n /\ Len(pipe') = Len(pipe) + 1
        /\ \A i \in 1 .. Len(pipe) : pipe'[i] = pipe[i]
        /\ pipe'[Len(pipe) + 1] = [op |-> o, by |-> a]
    BY SendPipe
  <1>2. n \in Nat /\ Len(pipe) \in Nat /\ n <= Len(pipe)
    BY Piped
  <1>3. \A i \in 1 .. n : i \in 1 .. Len(pipe)
    BY <1>2
  <1>4. \A i : i \in n + 1 .. Len(pipe) + 1 <=> i \in n + 1 .. Len(pipe) \/ i = Len(pipe) + 1
    BY <1>2
  <1>5. \A i \in n + 1 .. Len(pipe) : i \in 1 .. Len(pipe)
    BY <1>2
  <1>6. Ran' = Ran
    BY <1>1, <1>3 DEF Ran
  <1>7. Unrun' = {pipe'[i] : i \in n + 1 .. Len(pipe) + 1}
    BY <1>1 DEF Unrun
  <1> QED BY <1>1, <1>4, <1>5, <1>6, <1>7 DEF Unrun

(* after PostgreSQL runs one, *)
LEMMA RunSets ==
  ASSUME Typed, Sent, Execute
  PROVE  /\ Head(wire) \in Unrun /\ Ran' = Ran \cup {Head(wire)} /\ Unrun' = Unrun \ {Head(wire)}
         /\ \A s \in Ran \cup Unrun' : s.by # Head(wire).by
  <1> DEFINE s == Head(wire)
  <1>1. /\ n' = n + 1 /\ pipe' = pipe /\ n < Len(pipe) /\ pipe[n + 1] = s
    BY RunPipe DEF Execute
  <1>2. n \in Nat /\ Len(pipe) \in Nat /\ n <= Len(pipe)
    BY Piped
  <1> HIDE DEF s
  <1>3. \A i : i \in 1 .. n + 1 <=> i \in 1 .. n \/ i = n + 1
    BY <1>2
  <1>4. \A i : i \in n + 1 .. Len(pipe) <=> i \in n + 1 + 1 .. Len(pipe) \/ i = n + 1
    BY <1>1, <1>2
  <1>5. \A i \in n + 1 + 1 .. Len(pipe) : i # n + 1 /\ i \in 1 .. Len(pipe) /\ n + 1 \in 1 .. Len(pipe)
    BY <1>1, <1>2
  <1>6. \A i \in 1 .. n : i # n + 1 /\ i \in 1 .. Len(pipe) /\ n + 1 \in 1 .. Len(pipe)
    BY <1>1, <1>2
  <1>7. \A i \in n + 1 + 1 .. Len(pipe) : pipe[i].by # s.by
    BY <1>1, <1>5 DEF Sent
  <1>8. \A i \in 1 .. n : pipe[i].by # s.by
    BY <1>1, <1>6 DEF Sent
  <1>9. Ran' = {pipe[i] : i \in 1 .. n + 1} /\ Unrun' = {pipe[i] : i \in n + 1 + 1 .. Len(pipe)}
    BY <1>1 DEF Ran, Unrun
  <1>10. Ran' = Ran \cup {s}
    BY <1>1, <1>3, <1>9 DEF Ran
  <1>11. Unrun' = Unrun \ {s} /\ s \in Unrun
    BY <1>1, <1>4, <1>7, <1>9 DEF Unrun
  <1>12. \A u \in Ran \cup Unrun' : u.by # s.by
    BY <1>7, <1>8, <1>9 DEF Ran
  <1> QED BY <1>10, <1>11, <1>12 DEF s

(* after an answer is handled, *)
LEMMA HandlesSets ==
  ASSUME Typed, Sent, NEW o, NEW a, Answered(o, a), NEW q \in Seq(Statement), wire' = wire \o q
  PROVE  /\ [op |-> o, by |-> a] \in Ran /\ Ran' = Ran \ {[op |-> o, by |-> a]}
         /\ \A s \in Ran' \cup Unrun : s.by # a
         /\ Unrun' = Unrun \cup {q[i] : i \in 1 .. Len(q)}
  <1> DEFINE h == [op |-> o, by |-> a]
             d == Len(pipe) - 1
  <1>1. /\ n' = n - 1 /\ n >= 1 /\ pipe[1] = h /\ Len(pipe') = d + Len(q) /\ Len(q) \in Nat
        /\ \A i \in 1 .. d : pipe'[i] = pipe[i + 1]
        /\ \A i \in 1 .. Len(q) : pipe'[d + i] = q[i]
    BY HandlesPipe
  <1>2. n \in Nat /\ Len(pipe) \in Nat /\ n <= Len(pipe) /\ d \in Nat /\ d = Len(pipe) - 1
    BY <1>1, Piped
  <1>3. h.by = a
    OBVIOUS
  <1>4. \A i \in 2 .. Len(pipe) : pipe[i].by # a
    BY <1>1, OnlyAnswer
  <1> HIDE DEF h, d
  <1>5. Ran' = {pipe[i + 1] : i \in 1 .. n - 1}
    <2>1. \A i \in 1 .. n - 1 : i \in 1 .. d
      BY <1>2
    <2> QED BY <1>1, <2>1 DEF Ran
  <1>6. \A i : i \in 1 .. n - 1 <=> i + 1 \in 2 .. n /\ i \in Int
    BY <1>2
  <1>7. Ran' = {pipe[i] : i \in 2 .. n}
    <2>1. \A i \in 2 .. n : i - 1 \in 1 .. n - 1 /\ i = i - 1 + 1
      BY <1>2
    <2>2. \A i \in 1 .. n - 1 : i + 1 \in 2 .. n
      BY <1>2
    <2> QED BY <1>5, <2>1, <2>2
  <1>8. Ran = Ran' \cup {h}
    <2>1. \A i : i \in 1 .. n <=> i \in 2 .. n \/ i = 1
      BY <1>1, <1>2
    <2> QED BY <1>1, <1>7, <2>1 DEF Ran
  <1>9. \A s \in Ran' \cup Unrun : s.by # a
    <2>1. \A i \in 2 .. n : i \in 2 .. Len(pipe)
      BY <1>2
    <2>2. \A i \in n + 1 .. Len(pipe) : i \in 2 .. Len(pipe)
      BY <1>1, <1>2
    <2> QED BY <1>4, <1>7, <2>1, <2>2 DEF Unrun
  <1>10. Ran' = Ran \ {h} /\ h \in Ran
    BY <1>3, <1>8, <1>9
  <1>11. Unrun' = Unrun \cup {q[i] : i \in 1 .. Len(q)}
    <2>1. \A i \in n - 1 + 1 .. d + Len(q) :
             \/ i \in 1 .. d /\ i + 1 \in n + 1 .. Len(pipe)
             \/ i - d \in 1 .. Len(q) /\ i = d + (i - d)
      BY <1>1, <1>2
    <2>2. \A i \in n + 1 .. Len(pipe) : i - 1 \in n - 1 + 1 .. d + Len(q) /\ i - 1 \in 1 .. d
                                        /\ i - 1 + 1 = i
      BY <1>1, <1>2
    <2>3. \A i \in 1 .. Len(q) : d + i \in n - 1 + 1 .. d + Len(q)
      BY <1>1, <1>2
    <2>4. Unrun' = {pipe'[i] : i \in n - 1 + 1 .. d + Len(q)}
      BY <1>1 DEF Unrun
    <2>5. ASSUME NEW s \in Unrun' PROVE s \in Unrun \cup {q[i] : i \in 1 .. Len(q)}
      <3>1. PICK i \in n - 1 + 1 .. d + Len(q) : s = pipe'[i]
        BY <2>4
      <3>2. CASE i \in 1 .. d /\ i + 1 \in n + 1 .. Len(pipe)
        BY <3>1, <3>2, <1>1 DEF Unrun
      <3>3. CASE i - d \in 1 .. Len(q) /\ i = d + (i - d)
        <4> DEFINE k == i - d
        <4>1. k \in 1 .. Len(q) /\ i = d + k
          BY <3>3
        <4> HIDE DEF k
        <4> QED BY <3>1, <4>1, <1>1
      <3> QED BY <3>2, <3>3, <2>1
    <2>6. ASSUME NEW s \in Unrun PROVE s \in Unrun'
      <3>1. PICK i \in n + 1 .. Len(pipe) : s = pipe[i]
        BY DEF Unrun
      <3> DEFINE k == i - 1
      <3>2. k \in n - 1 + 1 .. d + Len(q) /\ k \in 1 .. d /\ k + 1 = i
        BY <2>2
      <3> HIDE DEF k
      <3>3. pipe'[k] = s
        BY <3>1, <3>2, <1>1
      <3> QED BY <3>2, <3>3, <2>4
    <2>7. \A i \in 1 .. Len(q) : q[i] \in Unrun'
      BY <2>3, <2>4, <1>1
    <2> QED BY <2>5, <2>6, <2>7
  <1> QED BY <1>9, <1>10, <1>11 DEF h

(* when it sends nothing, *)
LEMMA HandleSets ==
  ASSUME Typed, Sent, NEW o, NEW a, Answered(o, a), wire' = wire
  PROVE  /\ [op |-> o, by |-> a] \in Ran /\ Ran' = Ran \ {[op |-> o, by |-> a]}
         /\ \A s \in Ran' \cup Unrun : s.by # a
         /\ Unrun' = Unrun
  <1>1. << >> \in Seq(Statement) /\ wire' = wire \o << >> /\ Len(<< >>) = 0
    BY ConcatEmptySeq DEF Typed
  <1>2. {<< >>[i] : i \in 1 .. Len(<< >>)} = {}
    BY <1>1
  <1>3. Unrun' = Unrun \cup {<< >>[i] : i \in 1 .. Len(<< >>)}
    BY <1>1, HandlesSets
  <1>4. /\ [op |-> o, by |-> a] \in Ran /\ Ran' = Ran \ {[op |-> o, by |-> a]}
        /\ \A s \in Ran' \cup Unrun : s.by # a
    BY <1>1, HandlesSets
  <1> QED BY <1>2, <1>3, <1>4

(* when it sends one statement, *)
LEMMA HandleSendSets ==
  ASSUME Typed, Sent, NEW o, NEW a, Answered(o, a), NEW p \in Ops, NEW b \in Actors, Send(p, b)
  PROVE  /\ [op |-> o, by |-> a] \in Ran /\ Ran' = Ran \ {[op |-> o, by |-> a]}
         /\ \A s \in Ran' \cup Unrun : s.by # a
         /\ Unrun' = Unrun \cup {[op |-> p, by |-> b]}
  <1> DEFINE s == [op |-> p, by |-> b]
             q == <<s>>
  <1>1. s \in Statement /\ q \in Seq(Statement) /\ Len(q) = 1 /\ q[1] = s
    BY DEF Statement
  <1>2. wire' = wire \o q
    BY <1>1, AppendIsConcat DEF Typed, Send
  <1>3. {q[i] : i \in 1 .. Len(q)} = {s}
    BY <1>1
  <1> HIDE DEF s, q
  <1>4. Unrun' = Unrun \cup {q[i] : i \in 1 .. Len(q)}
    BY <1>1, <1>2, HandlesSets
  <1>5. /\ [op |-> o, by |-> a] \in Ran /\ Ran' = Ran \ {[op |-> o, by |-> a]}
        /\ \A u \in Ran' \cup Unrun : u.by # a
    BY <1>1, <1>2, HandlesSets
  <1> QED BY <1>3, <1>4, <1>5 DEF s

(* and when nothing moves. *)
LEMMA SameSets ==
  ASSUME wire' = wire, answers' = answers
  PROVE  Ran' = Ran /\ Unrun' = Unrun
  BY DEF Ran, Unrun, n, pipe

-----------------------------------------------------------------------------
(* What calm adds: no call is on its way while a frame may be rolled back. *)

Peaceful == \A f \in Frames : MayRollBack(f) => \A t \in Tasks : ~ InFlight(t)

(* A call on its way claims what is bound, and its query leaves once the     *)
(* set_config is answered; the one set_config on its way is the record's.    *)
Claimed ==
    /\ \A t \in Tasks :
         /\ place[t] = "idle" => t \notin settled
         /\ place[t] # "idle" => wants[t] # NoId
         /\ InFlight(t) => wants[t] = bound
         /\ place[t] = "claiming" => waits[t] = ready /\ ready \notin settled
         /\ place[t] = "querying" => ready \in settled \cup {Nobody}
    /\ \A f \in Frames : stage[f] \in {"idle", "queued", "opening"} => f \notin settled
    /\ \A s \in Pending : s.op = "set" =>
          s.by = ready /\ ready \notin settled /\ bound = wants[ready]

(* While a ROLLBACK TO is on its way, nothing else is. *)
LEMMA Alone ==
  ASSUME Typed, Sent, Chained, Peaceful, NEW f \in Frames, stage[f] = "undoing"
  PROVE  \A s \in Pending : s.op = "rollback" /\ s.by = f
  <1>1. \A t \in Tasks : ~ InFlight(t)
    BY DEF Peaceful, MayRollBack
  <1>2. f \in Open /\ lvl[f] = openLevel /\ \A g \in Open : lvl[g] = openLevel => g = f
    <2>1. f \in Open
      BY DEF Open
    <2> QED BY <2>1, NotRunningInnermost
  <1>3. ASSUME NEW s \in Pending PROVE s.op = "rollback" /\ s.by = f
    <2>1. s.op \in Ops /\ s.by \in Actors /\ Waiting(s.op, s.by)
      BY PendingFacts
    <2>2. s.by \notin Tasks
      BY <1>1, <2>1, BindingAssumption DEF Waiting, InFlight, Ops
    <2>3. s.by \in Frames /\ stage[s.by] \in {"opening", "binding", "undoing"}
      BY <2>1, <2>2 DEF Waiting, Ops, Actors
    <2>4. s.by \in Open /\ stage[s.by] # "running"
      BY <2>3 DEF Open
    <2>5. lvl[s.by] = openLevel
      BY <2>4, NotRunningInnermost
    <2>6. s.by = f
      BY <2>4, <2>5, <1>2
    <2> QED BY <2>1, <2>2, <2>6 DEF Waiting, Ops
  <1> QED BY <1>3

(* Every step of a calm transaction keeps calls and rollbacks apart. *)
LEMMA PeacefulNext ==
  ASSUME Calm, Typed, Typed', Sent, Peaceful, Next
  PROVE  Peaceful'
  <1>1. ASSUME NEW t \in Tasks, NEW c \in Contexts, NEW id \in Ids, Start(t, c, id)
        PROVE  Peaceful'
    <2>1. \A f \in Frames : ~ MayRollBack(f)
      BY <1>1 DEF Start
    <2>2. \A f \in Frames : wants'[f] = wants[f] /\ stage'[f] = stage[f]
      BY <1>1, BindingAssumption DEF Start, Typed, Actors
    <2> QED BY <2>1, <2>2 DEF Peaceful, MayRollBack
  <1>2. ASSUME place' = place, NEW f \in Frames,
               \A g \in Frames \ {f} : stage'[g] = stage[g] /\ wants'[g] = wants[g],
               MayRollBack(f)' => MayRollBack(f) \/ \A t \in Tasks : ~ InFlight(t)
        PROVE  Peaceful'
    BY <1>2 DEF Peaceful, MayRollBack, InFlight
  <1>3. ASSUME NEW f \in Frames, NEW c \in Contexts, NEW id \in Tenants, CallFrame(f, c, id)
        PROVE  Peaceful'
    <2>1. /\ place' = place /\ wants'[f] = id /\ stage'[f] \in {"queued", "closed"}
          /\ \A g \in Frames \ {f} : stage'[g] = stage[g] /\ wants'[g] = wants[g]
          /\ id # NoId => \A t \in Tasks : ~ InFlight(t)
      BY <1>3 DEF CallFrame, Typed, Actors
    <2> QED BY <1>2, <2>1 DEF MayRollBack
  <1>4. ASSUME NEW f \in Frames, OpenFrame(f) \/ ReleaseFrame(f) \/ FailFrame(f)
        PROVE  Peaceful'
    <2>1. /\ place' = place /\ wants' = wants
          /\ \A g \in Frames \ {f} : stage'[g] = stage[g]
          /\ \/ stage[f] = "queued" /\ stage'[f] = "opening"
             \/ stage'[f] = "closed"
             \/ \A t \in Tasks : ~ InFlight(t)
      BY <1>4 DEF OpenFrame, ReleaseFrame, FailFrame, Typed
    <2> QED BY <1>2, <2>1 DEF MayRollBack
  <1>5. ASSUME Execute
        PROVE  Peaceful'
    BY <1>5 DEF Execute, calls, Peaceful, MayRollBack, InFlight
  <1>6. ASSUME NEW t \in Tasks, QueryAnswered(t)
        PROVE  Peaceful'
    <2>1. stage' = stage /\ wants' = wants /\ \A u \in Tasks : InFlight(u)' => InFlight(u)
      BY <1>6 DEF QueryAnswered, InFlight, Typed
    <2> QED BY <2>1 DEF Peaceful, MayRollBack
  <1>7. ASSUME NEW a \in Actors, SetAnswered(a)
        PROVE  Peaceful'
    <2>1. /\ wants' = wants /\ \A u \in Tasks : InFlight(u)' => InFlight(u)
          /\ \A f \in Frames : stage'[f] = stage[f] \/ stage'[f] = "running"
      BY <1>7 DEF SetAnswered, InFlight
    <2> QED BY <2>1 DEF Peaceful, MayRollBack
  <1>8. ASSUME NEW f \in Frames, SavepointAnswered(f)
        PROVE  Peaceful'
    <2>1. stage[f] = "opening"
      BY <1>8, Answering DEF SavepointAnswered, Waiting
    <2>2. /\ place' = place /\ wants' = wants
          /\ \A g \in Frames \ {f} : stage'[g] = stage[g]
          /\ stage'[f] = "running" \/ wants[f] # NoId
      BY <1>8 DEF SavepointAnswered, Typed
    <2> QED BY <1>2, <2>1, <2>2 DEF MayRollBack
  <1>9. ASSUME NEW f \in Frames, RollbackAnswered(f)
        PROVE  Peaceful'
    <2>1. /\ place' = place /\ wants' = wants /\ stage'[f] = "closed"
          /\ \A g \in Frames \ {f} : stage'[g] = stage[g]
      BY <1>9 DEF RollbackAnswered, Typed
    <2> QED BY <1>2, <2>1 DEF MayRollBack
  <1> QED BY <1>1, <1>3, <1>4, <1>5, <1>6, <1>7, <1>8, <1>9 DEF Next

(* With nothing bound, no set_config and no call is on its way. *)
LEMMA Unclaimed ==
  ASSUME Typed, Sent, Claimed, bound = NoId
  PROVE  (\A s \in Pending : s.op # "set") /\ (\A t \in Tasks : ~ InFlight(t))
  <1>1. ASSUME NEW s \in Pending PROVE s.op # "set"
    BY PendingFacts DEF Claimed, Waiting
  <1>2. ASSUME NEW t \in Tasks PROVE ~ InFlight(t)
    BY DEF Claimed, InFlight
  <1> QED BY <1>1, <1>2

(* Every step of a calm transaction keeps the calls with the claim. *)
LEMMA ClaimedNext ==
  ASSUME Calm, Typed, Typed', Sent, Chained, Peaceful, Claimed, Next
  PROVE  Claimed'
  <1>a. /\ "set" \in Ops /\ "query" \in Ops /\ "savepoint" \in Ops /\ "rollback" \in Ops
        /\ Tasks \subseteq Actors /\ Frames \subseteq Actors /\ Tasks \cap Frames = {}
        /\ Nobody \notin Actors /\ NoId \notin Ids
    BY BindingAssumption DEF Ops, Actors
  <1>1. ASSUME NEW t \in Tasks, NEW c \in Contexts, NEW id \in Ids, Start(t, c, id)
        PROVE  Claimed'
    <2>1. /\ place[t] = "idle" /\ stage' = stage /\ answers' = answers
          /\ wants' = [wants EXCEPT ![t] = id] /\ wants'[t] = id /\ id # NoId
          /\ \A a \in Actors \ {t} : wants'[a] = wants[a]
      BY <1>1, <1>a DEF Start, Typed
    <2>2. \A s \in Pending : s.by # t /\ s.by \in Actors
      BY <2>1, PendingFacts, <1>a DEF Waiting, Ops
    <2>3. CASE ClaimFirst(t, id) /\ place' = [place EXCEPT ![t] = "claiming"]
      <3>1. /\ bound = NoId /\ bound' = id /\ ready' = t /\ Send("set", t) /\ settled' = settled
            /\ waits'[t] = t /\ place'[t] = "claiming"
            /\ \A u \in Tasks \ {t} : place'[u] = place[u]
        BY <2>3, <1>a DEF ClaimFirst, Typed
      <3>2. Ran' = Ran /\ Unrun' = Unrun \cup {[op |-> "set", by |-> t]}
        BY <2>1, <3>1, <1>a, SendSets
      <3>3. (\A s \in Pending : s.op # "set") /\ (\A u \in Tasks : ~ InFlight(u))
        BY <3>1, Unclaimed
      <3>4. \A s \in Pending' : s.op = "set" => s.by = t
        BY <3>2, <3>3 DEF Pending
      <3>5. t \notin settled
        BY <2>1 DEF Claimed
      <3>6. \A u \in Tasks : /\ place'[u] = "idle" => u \notin settled'
                             /\ place'[u] # "idle" => wants'[u] # NoId
                             /\ InFlight(u)' => u = t
        BY <2>1, <3>1, <3>3, <1>a DEF Claimed, InFlight
      <3> QED BY <2>1, <3>1, <3>4, <3>5, <3>6, <1>a DEF Claimed, InFlight
    <2>4. CASE ClaimShared(t, id) /\ place' = [place EXCEPT ![t] = "claiming"]
      <3>1. /\ bound = id /\ bound' = bound /\ ready' = ready /\ settled' = settled
            /\ ready \notin settled /\ waits'[t] = ready /\ wire' = wire
            /\ place'[t] = "claiming" /\ \A u \in Tasks \ {t} : place'[u] = place[u]
            /\ \A u \in Tasks \ {t} : waits'[u] = waits[u]
        BY <2>4, <1>a DEF ClaimShared, record, Typed
      <3>2. Pending' = Pending
        BY <2>1, <3>1, SameSets DEF Pending
      <3>3. \A s \in Pending' : s.op = "set" =>
              s.by = ready /\ ready \notin settled /\ bound = wants'[ready]
        BY <2>1, <2>2, <3>2 DEF Claimed
      <3>4. \A u \in Tasks \ {t} :
              /\ place'[u] = "idle" => u \notin settled
              /\ place'[u] # "idle" => wants'[u] # NoId
              /\ InFlight(u)' => wants'[u] = bound
              /\ place'[u] = "claiming" => waits'[u] = ready /\ ready \notin settled
              /\ place'[u] = "querying" => ready \in settled \cup {Nobody}
        BY <2>1, <3>1, <1>a DEF Claimed, InFlight
      <3> QED BY <2>1, <3>1, <3>3, <3>4 DEF Claimed, InFlight
    <2>5. CASE ClaimReady(id) /\ Send("query", t) /\ place' = [place EXCEPT ![t] = "querying"]
      <3>1. /\ bound = id /\ bound' = bound /\ ready' = ready /\ settled' = settled
            /\ ready \in settled \cup {Nobody} /\ waits' = waits
            /\ place'[t] = "querying" /\ \A u \in Tasks \ {t} : place'[u] = place[u]
        BY <2>5 DEF ClaimReady, record, Typed
      <3>2. Ran' = Ran /\ Unrun' = Unrun \cup {[op |-> "query", by |-> t]}
        BY <2>1, <2>5, <1>a, SendSets
      <3>3. \A s \in Pending' : s.op = "set" => s \in Pending
        BY <3>2 DEF Pending
      <3>4. \A s \in Pending' : s.op = "set" =>
              s.by = ready /\ ready \notin settled /\ bound = wants'[ready]
        BY <2>1, <2>2, <3>3 DEF Claimed
      <3>5. \A u \in Tasks \ {t} :
              /\ place'[u] = "idle" => u \notin settled
              /\ place'[u] # "idle" => wants'[u] # NoId
              /\ InFlight(u)' => wants'[u] = bound
              /\ place'[u] = "claiming" => waits'[u] = ready /\ ready \notin settled
              /\ place'[u] = "querying" => ready \in settled \cup {Nobody}
        BY <2>1, <3>1, <1>a DEF Claimed, InFlight
      <3> QED BY <2>1, <3>1, <3>4, <3>5 DEF Claimed, InFlight
    <2>6. CASE place' = [place EXCEPT ![t] = "refused"] /\ UNCHANGED <<waits, record, wire>>
      <3>1. /\ bound' = bound /\ ready' = ready /\ settled' = settled /\ waits' = waits /\ wire' = wire
            /\ place'[t] = "refused" /\ \A u \in Tasks \ {t} : place'[u] = place[u]
        BY <2>6 DEF record, Typed
      <3>2. Pending' = Pending
        BY <2>1, <3>1, SameSets DEF Pending
      <3>3. \A s \in Pending' : s.op = "set" =>
              s.by = ready /\ ready \notin settled /\ bound = wants'[ready]
        BY <2>1, <2>2, <3>2 DEF Claimed
      <3>4. \A u \in Tasks \ {t} :
              /\ place'[u] = "idle" => u \notin settled
              /\ place'[u] # "idle" => wants'[u] # NoId
              /\ InFlight(u)' => wants'[u] = bound
              /\ place'[u] = "claiming" => waits'[u] = ready /\ ready \notin settled
              /\ place'[u] = "querying" => ready \in settled \cup {Nobody}
        BY <2>1, <3>1, <1>a DEF Claimed, InFlight
      <3> QED BY <2>1, <3>1, <3>3, <3>4 DEF Claimed, InFlight
    <2> QED BY <1>1, <2>3, <2>4, <2>5, <2>6 DEF Start
  <1>b. ASSUME place' = place, waits' = waits, bound' = bound, ready' = ready, settled' = settled,
               \A s \in Pending' : s.op = "set" => s \in Pending,
               \A f \in Frames : stage'[f] \in {"idle", "queued", "opening"} =>
                                 stage[f] \in {"idle", "queued", "opening"},
               wants' = wants
        PROVE  Claimed'
    BY <1>b DEF Claimed, InFlight
  <1>2. ASSUME NEW f \in Frames, NEW c \in Contexts, NEW id \in Tenants, CallFrame(f, c, id)
        PROVE  Claimed'
    <2>1. /\ stage[f] = "idle" /\ place' = place /\ waits' = waits /\ bound' = bound /\ ready' = ready
          /\ settled' = settled /\ wire' = wire /\ answers' = answers
          /\ \A g \in Frames \ {f} : stage'[g] = stage[g]
          /\ \A a \in Actors \ {f} : wants'[a] = wants[a]
      BY <1>2 DEF CallFrame, record, Typed
    <2>2. Pending' = Pending
      BY <2>1, SameSets DEF Pending
    <2>3. \A s \in Pending : s.by # f /\ s.by \in Actors
      BY <2>1, <1>a, PendingFacts DEF Waiting, Ops
    <2>4. \A s \in Pending' : s.op = "set" =>
            s.by = ready /\ ready \notin settled /\ bound = wants'[ready]
      BY <2>1, <2>2, <2>3 DEF Claimed
    <2>5. \A t \in Tasks : wants'[t] = wants[t]
      BY <2>1, <1>a
    <2> QED BY <2>1, <2>4, <2>5 DEF Claimed, InFlight
  <1>3. ASSUME NEW f \in Frames, OpenFrame(f) \/ FailFrame(f)
        PROVE  Claimed'
    <2>1. /\ place' = place /\ waits' = waits /\ bound' = bound /\ ready' = ready
          /\ settled' = settled /\ wants' = wants /\ answers' = answers
          /\ \A g \in Frames : stage'[g] \in {"idle", "queued", "opening"} =>
                               stage[g] \in {"idle", "queued", "opening"}
      BY <1>3 DEF OpenFrame, FailFrame, record, Typed
    <2>2. PICK o \in {"savepoint", "rollback"} : Send(o, f)
      BY <1>3 DEF OpenFrame, FailFrame
    <2>3. Ran' = Ran /\ Unrun' = Unrun \cup {[op |-> o, by |-> f]}
      BY <2>1, <2>2, <1>a, SendSets
    <2>4. \A s \in Pending' : s.op = "set" => s \in Pending
      BY <2>2, <2>3 DEF Pending
    <2> QED BY <1>b, <2>1, <2>4
  <1>4. ASSUME NEW f \in Frames, ReleaseFrame(f)
        PROVE  Claimed'
    <2>1. /\ place' = place /\ waits' = waits /\ bound' = bound /\ ready' = ready
          /\ settled' = settled /\ wants' = wants /\ answers' = answers /\ wire' = wire
          /\ \A g \in Frames : stage'[g] \in {"idle", "queued", "opening"} =>
                               stage[g] \in {"idle", "queued", "opening"}
      BY <1>4 DEF ReleaseFrame, Typed
    <2>2. Pending' = Pending
      BY <2>1, SameSets DEF Pending
    <2> QED BY <1>b, <2>1, <2>2
  <1>5. ASSUME Execute
        PROVE  Claimed'
    <2>1. /\ place' = place /\ waits' = waits /\ bound' = bound /\ ready' = ready
          /\ settled' = settled /\ wants' = wants /\ stage' = stage
      BY <1>5 DEF Execute, calls, record
    <2>2. Pending' = Pending
      BY <1>5, RunSets DEF Pending
    <2> QED BY <1>b, <2>1, <2>2
  <1>6. ASSUME NEW t \in Tasks, QueryAnswered(t)
        PROVE  Claimed'
    <2>1. /\ waits' = waits /\ bound' = bound /\ ready' = ready
          /\ settled' = settled /\ wants' = wants /\ stage' = stage /\ wire' = wire
          /\ Answered("query", t) /\ place'[t] = "done"
          /\ \A u \in Tasks \ {t} : place'[u] = place[u]
      BY <1>6 DEF QueryAnswered, record, Typed
    <2>2. Pending' \subseteq Pending
      BY <2>1, HandleSets DEF Pending
    <2>3. place[t] = "querying"
      BY <2>1, Answering DEF Waiting
    <2> QED BY <2>1, <2>2, <2>3 DEF Claimed, InFlight
  <1>7. ASSUME NEW a \in Actors, SetAnswered(a)
        PROVE  Claimed'
    <2>1. PICK q \in Seq(Statement) : wire' = wire \o q /\ \A i \in 1 .. Len(q) : q[i].op = "query"
      BY <1>7, Awakened
    <2>2. /\ Answered("set", a) /\ bound' = bound /\ ready' = ready /\ settled' = settled \cup {a}
          /\ wants' = wants /\ waits' = waits
          /\ \A t \in Tasks : place'[t] = IF place[t] = "claiming" /\ waits[t] = a
                                          THEN "querying" ELSE place[t]
          /\ \A f \in Frames : stage'[f] = stage[f] \/ (stage[f] = "binding" /\ stage'[f] = "running")
      BY <1>7 DEF SetAnswered
    <2>3. /\ [op |-> "set", by |-> a] \in Ran /\ Ran' \subseteq Ran
          /\ \A s \in Ran' \cup Unrun : s.by # a
          /\ Unrun' = Unrun \cup {q[i] : i \in 1 .. Len(q)}
      BY <2>1, <2>2, HandlesSets
    <2>4. a = ready /\ ready \notin settled
      <3> DEFINE h == [op |-> "set", by |-> a]
      <3>1. h.op = "set" /\ h.by = a /\ h \in Pending
        BY <2>3 DEF Pending
      <3> HIDE DEF h
      <3> QED BY <3>1 DEF Claimed
    <2>5. \A s \in Pending' : s.op # "set"
      <3>1. \A s \in Pending' : s.op = "set" => s \in Pending /\ s.by # a
        BY <2>1, <2>3 DEF Pending
      <3> QED BY <3>1, <2>4 DEF Claimed
    <2>6. Waiting("set", a)
      BY <2>2, Answering
    <2>7. \A t \in Tasks : place'[t] # "claiming" /\ (place'[t] = "idle" => t # a)
      BY <2>2, <2>4, <2>6 DEF Claimed, Waiting
    <2>8. \A f \in Frames : stage'[f] \in {"idle", "queued", "opening"} => f \notin settled'
      BY <2>2, <2>6 DEF Claimed, Waiting
    <2> QED BY <2>2, <2>4, <2>5, <2>7, <2>8 DEF Claimed, InFlight
  <1>8. ASSUME NEW f \in Frames, SavepointAnswered(f)
        PROVE  Claimed'
    <2>1. /\ Answered("savepoint", f) /\ place' = place /\ wants' = wants
          /\ \A g \in Frames \ {f} : stage'[g] = stage[g]
          /\ stage'[f] \in {"running", "binding", "undoing"}
      BY <1>8 DEF SavepointAnswered, Typed
    <2>2. stage[f] = "opening" /\ f \notin settled
      BY <2>1, Answering DEF Waiting, Claimed
    <2>3. CASE UNCHANGED <<waits, record, wire>> \/ (UNCHANGED wire /\ ClaimReady(wants[f]))
      <3>1. bound' = bound /\ ready' = ready /\ settled' = settled /\ waits' = waits /\ wire' = wire
        BY <2>3 DEF record, ClaimReady
      <3>2. Pending' \subseteq Pending
        BY <2>1, <3>1, HandleSets DEF Pending
      <3> QED BY <1>b, <2>1, <3>1, <3>2
    <2>4. CASE Send("rollback", f) /\ UNCHANGED <<waits, record>>
      <3>1. bound' = bound /\ ready' = ready /\ settled' = settled /\ waits' = waits
        BY <2>4 DEF record
      <3>2. Ran' \subseteq Ran /\ Unrun' = Unrun \cup {[op |-> "rollback", by |-> f]}
        BY <2>1, <2>4, <1>a, HandleSendSets
      <3>3. \A s \in Pending' : s.op = "set" => s \in Pending
        BY <3>2 DEF Pending
      <3> QED BY <1>b, <2>1, <3>1, <3>3
    <2>5. CASE wants[f] # NoId /\ ClaimShared(f, wants[f])
      <3>1. /\ bound' = bound /\ ready' = ready /\ settled' = settled /\ wire' = wire
            /\ \A t \in Tasks : waits'[t] = waits[t]
        BY <2>5, <1>a DEF record, ClaimShared, Typed
      <3>2. Pending' \subseteq Pending
        BY <2>1, <3>1, HandleSets DEF Pending
      <3>3. \A g \in Frames : stage'[g] \in {"idle", "queued", "opening"} => g \notin settled
        BY <2>1 DEF Claimed
      <3> QED BY <2>1, <3>1, <3>2, <3>3 DEF Claimed, InFlight
    <2>6. CASE wants[f] # NoId /\ ClaimFirst(f, wants[f])
      <3>1. /\ bound = NoId /\ bound' = wants[f] /\ ready' = f /\ settled' = settled
            /\ Send("set", f)
        BY <2>6 DEF ClaimFirst
      <3>2. Ran' \subseteq Ran /\ Unrun' = Unrun \cup {[op |-> "set", by |-> f]}
        BY <2>1, <3>1, <1>a, HandleSendSets
      <3>3. (\A s \in Pending : s.op # "set") /\ (\A u \in Tasks : ~ InFlight(u))
        BY <3>1, Unclaimed
      <3>4. \A s \in Pending' : s.op = "set" => s.by = f
        BY <3>2, <3>3 DEF Pending
      <3>5. \A u \in Tasks : /\ place[u] = "idle" => u \notin settled
                             /\ place[u] # "idle" => wants[u] # NoId
                             /\ ~ InFlight(u)'
        BY <2>1, <3>3 DEF Claimed, InFlight
      <3>6. \A g \in Frames : stage'[g] \in {"idle", "queued", "opening"} => g \notin settled
        BY <2>1 DEF Claimed
      <3> QED BY <2>1, <2>2, <3>1, <3>4, <3>5, <3>6 DEF Claimed, InFlight
    <2> QED BY <1>8, <2>3, <2>4, <2>5, <2>6 DEF SavepointAnswered
  <1>9. ASSUME NEW f \in Frames, RollbackAnswered(f)
        PROVE  Claimed'
    <2>1. /\ Answered("rollback", f) /\ place' = place /\ wants' = wants /\ waits' = waits
          /\ wire' = wire /\ settled' = settled
          /\ \A g \in Frames \ {f} : stage'[g] = stage[g]
          /\ stage'[f] = "closed"
      BY <1>9 DEF RollbackAnswered, Typed
    <2>2. stage[f] = "undoing"
      BY <2>1, Answering DEF Waiting
    <2>3. (\A s \in Pending : s.op # "set") /\ (\A u \in Tasks : ~ InFlight(u))
      <3>1. \A s \in Pending : s.op = "rollback"
        BY <2>2, Alone
      <3>2. \A u \in Tasks : ~ InFlight(u)
        BY <2>2 DEF Peaceful, MayRollBack
      <3> QED BY <3>1, <3>2
    <2>4. \A s \in Pending' : s.op # "set"
      BY <2>1, <2>3, HandleSets DEF Pending
    <2>5. \A u \in Tasks : /\ place[u] = "idle" => u \notin settled
                           /\ place[u] # "idle" => wants[u] # NoId
                           /\ ~ InFlight(u)'
      BY <2>1, <2>3 DEF Claimed, InFlight
    <2> QED BY <2>1, <2>4, <2>5 DEF Claimed, InFlight
  <1> QED BY <1>1, <1>2, <1>3, <1>4, <1>5, <1>6, <1>7, <1>8, <1>9 DEF Next

-----------------------------------------------------------------------------
(* The setting in the database and the record of it. *)

SetAt == {i \in 1 .. Len(log) : log[i].set # NoId}

(* One setting at most, the record's; it is missing only while its           *)
(* set_config is on its way, or when a ROLLBACK TO has undone it and the     *)
(* record has not been told.                                                 *)
Recorded ==
    /\ \A i, j \in SetAt : i = j
    /\ \A i \in SetAt : log[i].set = bound
    /\ bound # NoId =>
         \/ SetAt # {}
         \/ \E s \in Unrun : s.op = "set"
         \/ \E s \in Ran : s.op = "rollback" /\ lvl[s.by] <= level
    /\ (\E s \in Unrun : s.op = "set") => SetAt = {}
    /\ \A s \in Ran : s.op = "rollback" /\ lvl[s.by] <= level => SetAt = {}

(* The record's level splits the open frames into those whose ROLLBACK TO    *)
(* undoes the setting, and those taken after it.                             *)
Levelled ==
    /\ \A f \in Open, i \in SetAt : \A j \in Marks[f] : j < i <=> lvl[f] <= level
    /\ \A s \in Unrun : s.op = "savepoint" /\ lvl[s.by] <= level => SetAt = {}
    /\ (\E s \in Unrun : s.op = "set") => \A f \in Open : Marks[f] # {} => lvl[f] <= level

Ordered ==
    \A i, j \in n + 1 .. Len(pipe) :
       pipe[i].op = "set" /\ pipe[j].op = "savepoint" => (j < i <=> lvl[pipe[j].by] <= level)

(* The levels of the frames that wait for a SAVEPOINT compare as before. *)
SameLevels == \A f \in Frames : stage[f] = "opening" => (lvl'[f] <= level' <=> lvl[f] <= level)

(* Who sent a SAVEPOINT on its way. *)
LEMMA WaitingSavepoint ==
  ASSUME Typed, Sent, NEW i \in 1 .. Len(pipe), pipe[i].op = "savepoint"
  PROVE  pipe[i].by \in Frames /\ stage[pipe[i].by] = "opening" /\ pipe[i].by \in Open
         /\ lvl[pipe[i].by] \in Nat
  BY OnItsWay DEF Waiting, Open, Typed, Contexts

(* The order of claims and SAVEPOINTs after a step that sends and handles nothing, *)
LEMMA OrderedSame ==
  ASSUME Typed, Sent, Ordered, pipe' = pipe, n' \in {n, n + 1}, SameLevels
  PROVE  Ordered'
  <1>1. n \in Nat /\ Len(pipe) \in Nat /\ n <= Len(pipe)
    BY Piped
  <1>2. \A i \in n' + 1 .. Len(pipe) : i \in n + 1 .. Len(pipe) /\ i \in 1 .. Len(pipe)
    <2>1. CASE n' = n
      BY <1>1, <2>1
    <2>2. CASE n' = n + 1
      BY <1>1, <2>2
    <2> QED BY <2>1, <2>2
  <1> QED BY <1>2, WaitingSavepoint DEF Ordered, SameLevels

(* after one that sends anything but a set_config, *)
LEMMA OrderedSent ==
  ASSUME Typed, Sent, Ordered, n' = n, SameLevels, Len(pipe') = Len(pipe) + 1,
         \A i \in 1 .. Len(pipe) : pipe'[i] = pipe[i],
         NEW s, pipe'[Len(pipe) + 1] = s, s.op # "set",
         s.op = "savepoint" => ~ (lvl'[s.by] <= level')
  PROVE  Ordered'
  <1>1. n \in Nat /\ Len(pipe) \in Nat /\ n <= Len(pipe)
    BY Piped
  <1>2. \A i \in n' + 1 .. Len(pipe') :
          (i \in n + 1 .. Len(pipe) /\ i \in 1 .. Len(pipe)) \/ i = Len(pipe) + 1
    BY <1>1
  <1>3. ASSUME NEW i \in n' + 1 .. Len(pipe'), NEW j \in n' + 1 .. Len(pipe'),
               pipe'[i].op = "set", pipe'[j].op = "savepoint"
        PROVE  j < i <=> lvl'[pipe'[j].by] <= level'
    <2>1. i \in n + 1 .. Len(pipe) /\ i \in 1 .. Len(pipe) /\ pipe[i].op = "set"
      BY <1>2, <1>3
    <2>2. CASE j \in n + 1 .. Len(pipe) /\ j \in 1 .. Len(pipe)
      <3>1. pipe'[j] = pipe[j] /\ pipe[j].op = "savepoint"
        BY <1>3, <2>2
      <3>2. pipe[j].by \in Frames /\ stage[pipe[j].by] = "opening"
        BY <2>2, <3>1, WaitingSavepoint
      <3> QED BY <2>1, <2>2, <3>1, <3>2 DEF Ordered, SameLevels
    <2>3. CASE j = Len(pipe) + 1
      BY <2>1, <2>3, <1>1, <1>3
    <2> QED BY <2>2, <2>3, <1>2
  <1> QED BY <1>3 DEF Ordered

(* and after one that handles an answer. *)
LEMMA OrderedHandled ==
  ASSUME Typed, Sent, Ordered, n >= 1, n' = n - 1, SameLevels,
         NEW k \in Nat, Len(pipe') = Len(pipe) - 1 + k,
         \A i \in 1 .. Len(pipe) - 1 : pipe'[i] = pipe[i + 1],
         \A i \in 1 .. k : pipe'[Len(pipe) - 1 + i].op \notin {"set", "savepoint"}
  PROVE  Ordered'
  <1>1. n \in Nat /\ Len(pipe) \in Nat /\ n <= Len(pipe)
    BY Piped
  <1>2. ASSUME NEW i \in n' + 1 .. Len(pipe'), pipe'[i].op \in {"set", "savepoint"}
        PROVE  /\ i + 1 \in n + 1 .. Len(pipe) /\ i + 1 \in 1 .. Len(pipe)
               /\ pipe'[i] = pipe[i + 1] /\ i \in Int
    <2> DEFINE j == i - (Len(pipe) - 1)
    <2>1. j \in 1 .. k => pipe'[Len(pipe) - 1 + j].op \notin {"set", "savepoint"}
      OBVIOUS
    <2>2. i = Len(pipe) - 1 + j
      BY <1>1
    <2>3. j \notin 1 .. k
      BY <1>2, <2>1, <2>2
    <2>4. i \in 1 .. Len(pipe) - 1
      BY <1>1, <2>3
    <2> QED BY <1>1, <2>4
  <1>3. ASSUME NEW i \in n' + 1 .. Len(pipe'), NEW j \in n' + 1 .. Len(pipe'),
               pipe'[i].op = "set", pipe'[j].op = "savepoint"
        PROVE  j < i <=> lvl'[pipe'[j].by] <= level'
    <2>1. /\ i + 1 \in n + 1 .. Len(pipe) /\ pipe[i + 1].op = "set" /\ i \in Int /\ j \in Int
          /\ j + 1 \in n + 1 .. Len(pipe) /\ j + 1 \in 1 .. Len(pipe)
          /\ pipe'[j] = pipe[j + 1] /\ pipe[j + 1].op = "savepoint"
      BY <1>2, <1>3
    <2>2. pipe[j + 1].by \in Frames /\ stage[pipe[j + 1].by] = "opening"
      BY <2>1, WaitingSavepoint
    <2>3. j + 1 < i + 1 <=> lvl[pipe[j + 1].by] <= level
      BY <2>1 DEF Ordered
    <2>4. j + 1 < i + 1 <=> j < i
      BY <2>1
    <2> QED BY <2>1, <2>2, <2>3, <2>4 DEF SameLevels
  <1> QED BY <1>3 DEF Ordered

(* The first set_config on its way is sent after every SAVEPOINT there is. *)
LEMMA OrderedClaimed ==
  ASSUME Typed, Sent, \A s \in Pending : s.op # "set", NEW k \in {0, 1}, n >= k, n' = n - k,
         Len(pipe') = Len(pipe) - k + 1,
         \A i \in 1 .. Len(pipe) - k : pipe'[i] = pipe[i + k],
         pipe'[Len(pipe) - k + 1].op = "set",
         \A f \in Open : lvl'[f] <= level'
  PROVE  Ordered'
  <1>1. n \in Nat /\ Len(pipe) \in Nat /\ n <= Len(pipe)
    BY Piped
  <1>2. ASSUME NEW i \in n' + 1 .. Len(pipe')
        PROVE  \/ i + k \in n + 1 .. Len(pipe) /\ i + k \in 1 .. Len(pipe) /\ pipe'[i] = pipe[i + k]
                  /\ i < Len(pipe) - k + 1
               \/ i = Len(pipe) - k + 1
    BY <1>1
  <1>3. \A i \in n + 1 .. Len(pipe) : pipe[i].op # "set"
    BY DEF Pending, Unrun
  <1>4. ASSUME NEW i \in n' + 1 .. Len(pipe'), NEW j \in n' + 1 .. Len(pipe'),
               pipe'[i].op = "set", pipe'[j].op = "savepoint"
        PROVE  j < i /\ lvl'[pipe'[j].by] <= level'
    <2>1. i = Len(pipe) - k + 1
      BY <1>2, <1>3, <1>4
    <2>2. j # i
      BY <1>4
    <2>3. j + k \in 1 .. Len(pipe) /\ pipe'[j] = pipe[j + k] /\ j < i
      BY <1>2, <2>1, <2>2
    <2>4. pipe[j + k].by \in Open
      BY <1>4, <2>3, WaitingSavepoint
    <2> QED BY <2>3, <2>4
  <1> QED BY <1>4 DEF Ordered

Standing == Recorded /\ Levelled /\ Ordered

(* A step that leaves the database, the binding and the levels of the open   *)
(* frames as they are, runs no statement and sends no set_config.            *)
LEMMA StandingKept ==
  ASSUME Typed, Sent, Standing, log' = log, bound' = bound, Ordered',
         \A g \in Open : \/ lvl'[g] <= level' <=> lvl[g] <= level
                         \/ stage[g] = "running" /\ g \notin Open',
         \A g \in Open' : g \in Open \/ Marks[g] = {},
         \A s \in Unrun : s.op = "set" => s \in Unrun',
         \A s \in Unrun' : s.op = "set" => s \in Unrun,
         \A s \in Unrun' : s.op = "savepoint" => s \in Unrun \/ ~ (lvl'[s.by] <= level'),
         \A s \in Ran' : s.op = "rollback" => s \in Ran,
         \A s \in Ran : s.op = "rollback" => s \in Ran'
  PROVE  Standing'
  <1>1. SetAt' = SetAt /\ Marks' = Marks
    BY DEF SetAt, Marks, Mark
  <1>2. \A s \in Pending : s.op \in {"savepoint", "rollback"} =>
           (lvl'[s.by] <= level' <=> lvl[s.by] <= level)
    <2>1. \A s \in Pending : s.op \in {"savepoint", "rollback"} =>
             s.by \in Frames /\ stage[s.by] \in {"opening", "undoing"}
      BY PendingFacts DEF Waiting
    <2> QED BY <2>1 DEF Open
  <1>3. Recorded'
    <2>1. (\E s \in Unrun' : s.op = "set") <=> (\E s \in Unrun : s.op = "set")
      OBVIOUS
    <2>2. \A s : s \in Ran' /\ s.op = "rollback" /\ lvl'[s.by] <= level'
              <=> s \in Ran /\ s.op = "rollback" /\ lvl[s.by] <= level
      BY <1>2 DEF Pending
    <2>3. (\E s \in Ran' : s.op = "rollback" /\ lvl'[s.by] <= level')
             <=> (\E s \in Ran : s.op = "rollback" /\ lvl[s.by] <= level)
      BY <2>2
    <2> QED BY <1>1, <2>1, <2>2, <2>3 DEF Standing, Recorded
  <1>4. Levelled'
    <2>1. ASSUME NEW f \in Open', Marks[f] # {}
          PROVE  f \in Open /\ (lvl'[f] <= level' <=> lvl[f] <= level)
      BY <2>1
    <2>2. \A f \in Open', i \in SetAt : \A j \in Marks[f] : j < i <=> lvl'[f] <= level'
      BY <2>1 DEF Standing, Levelled
    <2>3. \A s \in Unrun' : s.op = "savepoint" /\ lvl'[s.by] <= level' => SetAt = {}
      BY <1>2 DEF Standing, Levelled, Pending
    <2>4. (\E s \in Unrun' : s.op = "set") => \A f \in Open' : Marks[f] # {} => lvl'[f] <= level'
      BY <2>1 DEF Standing, Levelled
    <2> QED BY <1>1, <2>2, <2>3, <2>4 DEF Levelled
  <1> QED BY <1>3, <1>4 DEF Standing

(* The first claim: nothing is set, and every open SAVEPOINT is before it. *)
LEMMA StandingClaimed ==
  ASSUME Typed, Chained, Standing, log' = log, bound = NoId, bound' # NoId,
         level' = openLevel, Ordered',
         \A f \in Open' : f \in Open /\ lvl'[f] = lvl[f],
         \E s \in Unrun' : s.op = "set"
  PROVE  Standing'
  <1>1. SetAt = {} /\ SetAt' = {}
    BY DEF SetAt, Standing, Recorded
  <1>2. \A f \in Open' : lvl'[f] <= level'
    BY DEF Chained
  <1> QED BY <1>1, <1>2 DEF Standing, Recorded, Levelled

(* A frame is opened deeper than any other, and than the record. *)
LEMMA OpensDeeper ==
  ASSUME Typed, Chained, NEW f \in Frames, OpenFrame(f)
  PROVE  ~ (lvl[f] <= level)
  <1>1. /\ stage[f] = "queued"
        /\ \A g \in Frames : parent[g] = parent[f] => stage[g] \in {"idle", "queued", "closed"}
    BY DEF OpenFrame
  <1>2. /\ lvl[f] = lvl[parent[f]] + 1 /\ lvl[parent[f]] \in Nat /\ parent[f] \in Open \cup {Root}
    BY <1>1 DEF Chained, Typed, Runs, Open
  <1>3. \A g \in Open : parent[g] # parent[f]
    BY <1>1 DEF Open
  <1>4. lvl[parent[f]] = openLevel /\ level <= openLevel /\ level \in Nat
    BY <1>2, <1>3, Innermost DEF Chained, Typed
  <1> QED BY <1>2, <1>4

(* A TenantRepository call keeps the setting and its record together. *)
LEMMA StartStanding ==
  ASSUME Typed, Typed', Sent, Chained, Claimed, Standing,
         NEW t \in Tasks, NEW c \in Contexts, NEW id \in Ids, Start(t, c, id)
  PROVE  Standing'
  <1>a. "set" \in Ops /\ "query" \in Ops /\ t \in Actors /\ NoId # id
    BY BindingAssumption DEF Ops, Actors
  <1>1. log' = log /\ lvl' = lvl /\ stage' = stage /\ answers' = answers /\ Open' = Open
    BY DEF Start, db, Open
  <1>2. CASE level' = level /\ bound' = bound /\ wire' = wire
    <2>1. pipe' = pipe /\ n' = n /\ Ran' = Ran /\ Unrun' = Unrun
      BY <1>1, <1>2, SameSets DEF pipe, n
    <2>2. SameLevels
      BY <1>1, <1>2 DEF SameLevels
    <2>3. Ordered'
      BY <2>1, <2>2, OrderedSame DEF Standing
    <2> QED BY <1>1, <1>2, <2>1, <2>3, StandingKept
  <1>3. CASE level' = level /\ bound' = bound /\ Send("query", t)
    <2> DEFINE s == [op |-> "query", by |-> t]
    <2>1. Ran' = Ran /\ Unrun' = Unrun \cup {s} /\ s.op = "query"
      BY <1>a, <1>1, <1>3, SendSets
    <2>2. /\ n' = n /\ Len(pipe') = Len(pipe) + 1 /\ pipe'[Len(pipe) + 1] = s
          /\ \A i \in 1 .. Len(pipe) : pipe'[i] = pipe[i]
      BY <1>a, <1>1, <1>3, SendPipe
    <2>3. SameLevels
      BY <1>1, <1>3 DEF SameLevels
    <2> HIDE DEF s
    <2>4. Ordered'
      BY <2>1, <2>2, <2>3, OrderedSent DEF Standing
    <2> QED BY <1>1, <1>3, <2>1, <2>4, StandingKept
  <1>4. CASE ClaimFirst(t, id)
    <2>1. bound = NoId /\ bound' = id /\ level' = openLevel /\ Send("set", t)
      BY <1>4 DEF ClaimFirst
    <2> DEFINE s == [op |-> "set", by |-> t]
    <2>2. Unrun' = Unrun \cup {s} /\ s.op = "set"
      BY <1>a, <1>1, <2>1, SendSets
    <2>3. /\ n' = n - 0 /\ n >= 0 /\ Len(pipe') = Len(pipe) - 0 + 1
          /\ pipe'[Len(pipe) - 0 + 1] = s
          /\ \A i \in 1 .. Len(pipe) - 0 : pipe'[i] = pipe[i + 0]
      <3>1. /\ n' = n /\ Len(pipe') = Len(pipe) + 1 /\ pipe'[Len(pipe) + 1] = s
            /\ \A i \in 1 .. Len(pipe) : pipe'[i] = pipe[i]
        BY <1>a, <1>1, <2>1, SendPipe
      <3> HIDE DEF s
      <3>2. Len(pipe) \in Nat /\ n \in Nat
        BY Piped
      <3>3. Len(pipe) - 0 = Len(pipe) /\ n - 0 = n /\ n >= 0
        BY <3>2
      <3>4. \A i \in 1 .. Len(pipe) : i + 0 = i
        BY <3>2
      <3> QED BY <3>1, <3>3, <3>4
    <2> HIDE DEF s
    <2>4. \A u \in Pending : u.op # "set"
      BY <2>1, Unclaimed
    <2>5. \A f \in Open : lvl'[f] <= level'
      BY <1>1, <2>1 DEF Chained
    <2>6. Ordered'
      BY <2>2, <2>3, <2>4, <2>5, OrderedClaimed
    <2> QED BY <1>a, <1>1, <2>1, <2>2, <2>6, StandingClaimed
  <1> QED BY <1>2, <1>3, <1>4 DEF Start, ClaimShared, ClaimReady, record

(* So does a frame that is called, opened, released or failed:               *)
(* a record of a released frame's level goes to the parent's.                *)
LEMMA FramesStanding ==
  ASSUME Typed, Typed', Unbound, Sent, Chained, Marked, Standing, Next, NEW f \in Frames,
         \/ \E c \in Contexts, id \in Tenants : CallFrame(f, c, id)
         \/ OpenFrame(f) \/ ReleaseFrame(f) \/ FailFrame(f)
  PROVE  Standing'
  <1>a. "savepoint" \in Ops /\ "rollback" \in Ops /\ f \in Actors /\ f \in Contexts
    BY DEF Ops, Actors, Contexts
  <1>b. \A g \in Open : g \in Contexts /\ lvl[g] \in Nat /\ lvl[g] <= openLevel /\ level \in Nat
    BY DEF Chained, Typed, Open, Contexts
  <1>1. ASSUME NEW c \in Contexts, NEW id \in Tenants, CallFrame(f, c, id)
        PROVE  Standing'
    <2>1. /\ log' = log /\ level' = level /\ bound' = bound /\ wire' = wire /\ answers' = answers
          /\ stage[f] = "idle" /\ stage'[f] \in {"queued", "closed"}
          /\ \A g \in Frames \ {f} : stage'[g] = stage[g] /\ lvl'[g] = lvl[g]
      BY <1>1 DEF CallFrame, db, record, Typed, Contexts
    <2>2. pipe' = pipe /\ n' = n /\ Ran' = Ran /\ Unrun' = Unrun
      BY <2>1, SameSets DEF pipe, n
    <2>3. SameLevels
      BY <2>1 DEF SameLevels
    <2>4. Ordered'
      BY <2>2, <2>3, OrderedSame DEF Standing
    <2>5. /\ \A g \in Open : lvl'[g] = lvl[g]
          /\ \A g \in Open' : g \in Open
      BY <2>1 DEF Open
    <2> QED BY <2>1, <2>2, <2>4, <2>5, StandingKept
  <1>2. ASSUME OpenFrame(f)
        PROVE  Standing'
    <2>1. /\ log' = log /\ level' = level /\ bound' = bound /\ lvl' = lvl /\ answers' = answers
          /\ stage[f] = "queued" /\ Send("savepoint", f)
          /\ \A g \in Frames \ {f} : stage'[g] = stage[g]
      BY <1>2 DEF OpenFrame, db, Typed
    <2>2. ~ (lvl[f] <= level) /\ Marks[f] = {}
      BY <1>2, <2>1, OpensDeeper, Unmarked
    <2> DEFINE s == [op |-> "savepoint", by |-> f]
    <2>3. Ran' = Ran /\ Unrun' = Unrun \cup {s} /\ s.op = "savepoint" /\ s.by = f
      BY <1>a, <2>1, SendSets
    <2>4. /\ n' = n /\ Len(pipe') = Len(pipe) + 1 /\ pipe'[Len(pipe) + 1] = s
          /\ \A i \in 1 .. Len(pipe) : pipe'[i] = pipe[i]
      BY <1>a, <2>1, SendPipe
    <2>5. SameLevels
      BY <2>1 DEF SameLevels
    <2> HIDE DEF s
    <2>6. Ordered'
      BY <2>1, <2>2, <2>3, <2>4, <2>5, OrderedSent DEF Standing
    <2>7. \A g \in Open' : g \in Open \/ Marks[g] = {}
      BY <2>1, <2>2 DEF Open
    <2> QED BY <2>1, <2>2, <2>3, <2>6, <2>7, StandingKept
  <1>3. ASSUME ReleaseFrame(f)
        PROVE  Standing'
    <2>1. /\ log' = log /\ bound' = bound /\ lvl' = lvl /\ answers' = answers /\ wire' = wire
          /\ stage[f] = "running" /\ stage'[f] = "closed" /\ FramesClosed(f)
          /\ \A g \in Frames \ {f} : stage'[g] = stage[g]
          /\ openLevel' = lvl[parent[f]]
          /\ level' = IF level > lvl[parent[f]] THEN lvl[parent[f]] ELSE level
      BY <1>3 DEF ReleaseFrame, db, Typed
    <2>2. pipe' = pipe /\ n' = n /\ Ran' = Ran /\ Unrun' = Unrun
      BY <2>1, SameSets DEF pipe, n
    <2>3. Chained'
      BY ChainedNext
    <2>4. \A g \in Open' : g \in Open /\ lvl[g] <= lvl[parent[f]]
      BY <2>1, <2>3 DEF Open, Chained
    <2>5. \A g \in Open' : lvl'[g] <= level' <=> lvl[g] <= level
      <3>1. lvl[parent[f]] \in Nat
        BY DEF Typed
      <3> QED BY <1>b, <2>1, <2>4, <3>1
    <2>6. \A g \in Open : g # f => g \in Open'
      BY <2>1 DEF Open
    <2>7. SameLevels
      <3>1. \A g \in Frames : stage[g] = "opening" => g \in Open'
        BY <2>1 DEF Open
      <3> QED BY <2>5, <3>1 DEF SameLevels
    <2>8. Ordered'
      BY <2>2, <2>7, OrderedSame DEF Standing
    <2>9. \A g \in Open : \/ lvl'[g] <= level' <=> lvl[g] <= level
                          \/ stage[g] = "running" /\ g \notin Open'
      <3>1. f \notin Open'
        BY <2>1 DEF Open
      <3> QED BY <2>1, <2>5, <2>6, <3>1
    <2> QED BY <2>1, <2>2, <2>4, <2>8, <2>9, StandingKept
  <1>4. ASSUME FailFrame(f)
        PROVE  Standing'
    <2>1. /\ log' = log /\ level' = level /\ bound' = bound /\ lvl' = lvl /\ answers' = answers
          /\ stage[f] = "running" /\ Send("rollback", f)
          /\ \A g \in Frames \ {f} : stage'[g] = stage[g]
      BY <1>4 DEF FailFrame, db, record, Typed
    <2> DEFINE s == [op |-> "rollback", by |-> f]
    <2>3. Ran' = Ran /\ Unrun' = Unrun \cup {s} /\ s.op = "rollback"
      BY <1>a, <2>1, SendSets
    <2>4. /\ n' = n /\ Len(pipe') = Len(pipe) + 1 /\ pipe'[Len(pipe) + 1] = s
          /\ \A i \in 1 .. Len(pipe) : pipe'[i] = pipe[i]
      BY <1>a, <2>1, SendPipe
    <2>5. SameLevels
      BY <2>1 DEF SameLevels
    <2> HIDE DEF s
    <2>6. Ordered'
      BY <2>3, <2>4, <2>5, OrderedSent DEF Standing
    <2>7. \A g \in Open' : g \in Open
      BY <2>1 DEF Open
    <2> QED BY <2>1, <2>3, <2>6, <2>7, StandingKept
  <1> QED BY <1>1, <1>2, <1>3, <1>4

(* An answer that opens no frame and claims nothing, with the queries or the *)
(* ROLLBACK TO it sets off.                                                  *)
LEMMA AnswerStanding ==
  ASSUME Typed, Typed', Sent, Standing, NEW o, NEW a, Answered(o, a), o # "rollback",
         log' = log, bound' = bound, level' = level, lvl' = lvl,
         \A g \in Open' : g \in Open,
         NEW q \in Seq(Statement), wire' = wire \o q,
         \A i \in 1 .. Len(q) : q[i].op \in {"query", "rollback"}
  PROVE  Standing'
  <1>1. /\ n >= 1 /\ n' = n - 1 /\ Len(q) \in Nat /\ Len(pipe') = Len(pipe) - 1 + Len(q)
        /\ \A i \in 1 .. Len(pipe) - 1 : pipe'[i] = pipe[i + 1]
        /\ \A i \in 1 .. Len(q) : pipe'[Len(pipe) - 1 + i] = q[i]
    BY HandlesPipe
  <1>2. \A i \in 1 .. Len(q) : pipe'[Len(pipe) - 1 + i].op \notin {"set", "savepoint"}
    BY <1>1
  <1>3. SameLevels
    BY DEF SameLevels
  <1>4. Ordered'
    BY <1>1, <1>2, <1>3, OrderedHandled DEF Standing
  <1> DEFINE h == [op |-> o, by |-> a]
  <1>5. h.op # "rollback" /\ Ran' = Ran \ {h} /\ Unrun' = Unrun \cup {q[i] : i \in 1 .. Len(q)}
    BY HandlesSets
  <1> HIDE DEF h
  <1>6. \A s \in Unrun' : s.op \in {"set", "savepoint"} => s \in Unrun
    BY <1>5
  <1> QED BY <1>4, <1>5, <1>6, StandingKept

(* So does a frame whose SAVEPOINT is answered, its claim included. *)
LEMMA SavepointStanding ==
  ASSUME Typed, Typed', Sent, Chained, Claimed, Standing,
         NEW f \in Frames, SavepointAnswered(f)
  PROVE  Standing'
  <1>a. "set" \in Ops /\ "rollback" \in Ops /\ f \in Actors
    BY DEF Ops, Actors
  <1>1. /\ Answered("savepoint", f) /\ log' = log /\ lvl' = lvl
        /\ stage'[f] \in {"running", "binding", "undoing"}
        /\ \A g \in Frames \ {f} : stage'[g] = stage[g]
    BY DEF SavepointAnswered, db, Typed
  <1>2. stage[f] = "opening"
    BY <1>1, Answering DEF Waiting
  <1>3. Open' = Open
    BY <1>1, <1>2 DEF Open
  <1>4. CASE wire' = wire /\ level' = level /\ bound' = bound
    <2>1. << >> \in Seq(Statement) /\ wire' = wire \o << >> /\ \A i \in 1 .. Len(<< >>) : FALSE
      BY <1>4, ConcatEmptySeq DEF Typed
    <2> QED BY <1>1, <1>3, <1>4, <2>1, AnswerStanding
  <1>5. CASE Send("rollback", f) /\ level' = level /\ bound' = bound
    <2> DEFINE s == [op |-> "rollback", by |-> f]
               q == <<s>>
    <2>1. s \in Statement /\ q \in Seq(Statement) /\ Len(q) = 1 /\ q[1] = s /\ s.op = "rollback"
      BY <1>a DEF Statement
    <2>2. wire' = wire \o q
      BY <1>5, <2>1, AppendIsConcat DEF Typed, Send
    <2> HIDE DEF s, q
    <2>3. \A i \in 1 .. Len(q) : q[i].op \in {"query", "rollback"}
      BY <2>1
    <2> QED BY <1>1, <1>3, <1>5, <2>1, <2>2, <2>3, AnswerStanding
  <1>6. CASE ClaimFirst(f, wants[f]) /\ wants[f] # NoId
    <2>1. bound = NoId /\ bound' # NoId /\ level' = openLevel /\ Send("set", f)
      BY <1>6 DEF ClaimFirst
    <2> DEFINE s == [op |-> "set", by |-> f]
    <2>2. Unrun' = Unrun \cup {s} /\ s.op = "set"
      BY <1>a, <1>1, <2>1, HandleSendSets
    <2>3. /\ n' = n - 1 /\ n >= 1 /\ Len(pipe') = Len(pipe) - 1 + 1
          /\ pipe'[Len(pipe) - 1 + 1] = s
          /\ \A i \in 1 .. Len(pipe) - 1 : pipe'[i] = pipe[i + 1]
      <3>1. /\ n' = n - 1 /\ n >= 1 /\ Len(pipe') = Len(pipe) /\ pipe'[Len(pipe)] = s
            /\ \A i \in 1 .. Len(pipe) - 1 : pipe'[i] = pipe[i + 1]
        BY <1>a, <1>1, <2>1, HandleSendPipe
      <3> HIDE DEF s
      <3>2. Len(pipe) \in Nat /\ Len(pipe) - 1 + 1 = Len(pipe)
        BY Piped
      <3> QED BY <3>1, <3>2
    <2> HIDE DEF s
    <2>4. \A u \in Pending : u.op # "set"
      BY <2>1, Unclaimed
    <2>5. \A g \in Open : lvl'[g] <= level'
      BY <1>1, <2>1 DEF Chained
    <2>6. Ordered'
      BY <2>2, <2>3, <2>4, <2>5, OrderedClaimed
    <2> QED BY <1>1, <1>3, <2>1, <2>2, <2>6, StandingClaimed
  <1> QED BY <1>4, <1>5, <1>6 DEF SavepointAnswered, ClaimShared, ClaimReady, record

(* A ROLLBACK TO is answered with nothing else on its way: either it undid   *)
(* the setting, and the record is cleared, or both stay.                     *)
LEMMA RollbackStanding ==
  ASSUME Typed, Typed', Sent, Chained, Peaceful, Standing,
         NEW f \in Frames, RollbackAnswered(f)
  PROVE  Standing'
  <1>1. /\ Answered("rollback", f) /\ log' = log /\ lvl' = lvl /\ wire' = wire
        /\ stage'[f] = "closed" /\ \A g \in Frames \ {f} : stage'[g] = stage[g]
        /\ IF bound # NoId /\ level > lvl[parent[f]] THEN bound' = NoId /\ level' = 0
           ELSE bound' = bound /\ level' = level
    BY DEF RollbackAnswered, db, Typed
  <1>2. stage[f] = "undoing" /\ f \in Open
    BY <1>1, Answering DEF Waiting, Open
  <1>3. \A s \in Pending : s.op = "rollback" /\ s.by = f
    BY <1>2, Alone
  <1>4. Ran' = {} /\ Unrun' = {}
    BY <1>1, <1>3, HandleSets DEF Pending
  <1>5. /\ lvl[f] = lvl[parent[f]] + 1 /\ lvl[parent[f]] \in Nat /\ level \in Nat
        /\ lvl[f] = openLevel /\ level <= openLevel
    BY <1>2, NotRunningInnermost DEF Chained, Typed
  <1>6. Ordered'
    <2>1. \A i \in n' + 1 .. Len(pipe') : FALSE
      BY <1>4 DEF Unrun
    <2> QED BY <2>1 DEF Ordered
  <1>7. SetAt' = SetAt /\ Marks' = Marks
    BY <1>1 DEF SetAt, Marks, Mark
  <1>8. [op |-> "rollback", by |-> f] \in Ran
    BY <1>1, HandleSets
  <1>9. CASE SetAt = {} /\ bound' = NoId
    BY <1>4, <1>6, <1>7, <1>9 DEF Standing, Recorded, Levelled
  <1>10. CASE SetAt # {} /\ bound' = bound /\ level' = level
    <2>1. \A g \in Open' : g \in Open
      BY <1>1 DEF Open
    <2> QED BY <1>1, <1>4, <1>6, <1>7, <1>10, <2>1 DEF Standing, Recorded, Levelled
  <1>11. CASE bound = NoId
    <2>1. SetAt = {}
      BY <1>11 DEF SetAt, Standing, Recorded
    <2> QED BY <1>1, <1>9, <1>11, <2>1
  <1>12. CASE bound # NoId /\ level > lvl[parent[f]]
    <2>1. lvl[f] <= level
      BY <1>5, <1>12
    <2>2. SetAt = {}
      BY <1>8, <2>1 DEF Standing, Recorded
    <2> QED BY <1>1, <1>9, <1>12, <2>2
  <1>13. CASE bound # NoId /\ ~ (level > lvl[parent[f]])
    <2>1. ~ (lvl[f] <= level)
      BY <1>5, <1>13
    <2>2. SetAt # {}
      BY <1>3, <1>13, <2>1 DEF Standing, Recorded, Pending
    <2> QED BY <1>1, <1>10, <1>13, <2>2
  <1> QED BY <1>11, <1>12, <1>13

(* Where the settings and the SAVEPOINTs of a log with one more entry are. *)
LEMMA Logged ==
  ASSUME Typed, NEW e, log' = Append(log, e)
  PROVE  /\ Len(log) \in Nat /\ Len(log) + 1 \in Nat
         /\ \A i \in SetAt : i \in 1 .. Len(log) /\ log'[i] = log[i]
         /\ SetAt' = IF e.set # NoId THEN SetAt \cup {Len(log) + 1} ELSE SetAt
         /\ \A f \in Frames : Marks'[f] = IF e = Mark(f) THEN Marks[f] \cup {Len(log) + 1}
                                          ELSE Marks[f]
         /\ log'[Len(log) + 1] = e
  <1>1. Len(log) \in Nat /\ Len(log') = Len(log) + 1
    BY DEF Typed
  <1>2. \A i \in 1 .. Len(log) : log'[i] = log[i]
    BY DEF Typed
  <1>3. log'[Len(log) + 1] = e
    BY DEF Typed
  <1>4. \A i : i \in 1 .. Len(log) + 1 <=> i \in 1 .. Len(log) \/ i = Len(log) + 1
    BY <1>1
  <1>5. Len(log) + 1 \notin 1 .. Len(log)
    BY <1>1
  <1>6. SetAt' = IF e.set # NoId THEN SetAt \cup {Len(log) + 1} ELSE SetAt
    BY <1>1, <1>2, <1>3, <1>4, <1>5 DEF SetAt
  <1>7. ASSUME NEW f \in Frames
        PROVE  Marks'[f] = IF e = Mark(f) THEN Marks[f] \cup {Len(log) + 1} ELSE Marks[f]
    <2>1. Marks'[f] = {i \in 1 .. Len(log') : log'[i] = Mark(f)}
      BY DEF Marks, Mark
    <2>2. Marks[f] = {i \in 1 .. Len(log) : log[i] = Mark(f)}
      BY DEF Marks
    <2> QED BY <1>1, <1>2, <1>3, <1>4, <1>5, <2>1, <2>2
  <1>8. \A i \in SetAt : i \in 1 .. Len(log) /\ log'[i] = log[i]
    BY <1>2 DEF SetAt
  <1>9. Len(log) + 1 \in Nat
    BY <1>1
  <1> QED BY <1>1, <1>3, <1>6, <1>7, <1>8, <1>9, Zenon

(* What PostgreSQL running a statement leaves alone, and the statement it runs. *)
LEMMA RunsNext ==
  ASSUME Typed, Sent, Execute
  PROVE  /\ stage' = stage /\ lvl' = lvl /\ place' = place /\ wants' = wants
         /\ bound' = bound /\ level' = level /\ ready' = ready /\ settled' = settled
         /\ Open' = Open /\ SameLevels
         /\ Head(wire) \in Statement /\ Head(wire) \in Pending
         /\ Waiting(Head(wire).op, Head(wire).by)
         /\ n + 1 \in n + 1 .. Len(pipe) /\ pipe[n + 1] = Head(wire) /\ n \in Nat
         /\ \A s \in Unrun' : \E i \in n + 1 .. Len(pipe) : pipe[i] = s /\ n + 1 < i
  <1>1. /\ stage' = stage /\ lvl' = lvl /\ place' = place /\ wants' = wants
        /\ bound' = bound /\ level' = level /\ ready' = ready /\ settled' = settled
    BY DEF Execute, calls, record
  <1>2. Open' = Open /\ SameLevels
    BY <1>1 DEF Open, SameLevels
  <1>3. Head(wire) \in Pending
    BY RunSets DEF Pending
  <1>4. Waiting(Head(wire).op, Head(wire).by) /\ Head(wire) \in Statement
    BY <1>3, PendingFacts
  <1>5. /\ n' = n + 1 /\ pipe' = pipe /\ n < Len(pipe) /\ pipe[n + 1] = Head(wire)
    BY RunPipe DEF Execute
  <1>6. n \in Nat /\ Len(pipe) \in Nat
    BY Piped
  <1>7. n + 1 \in n + 1 .. Len(pipe)
    BY <1>5, <1>6
  <1>8. \A s \in Unrun' : \E i \in n + 1 .. Len(pipe) : pipe[i] = s /\ n + 1 < i
    <2>1. \A i \in n + 1 + 1 .. Len(pipe) : i \in n + 1 .. Len(pipe) /\ n + 1 < i
      BY <1>5, <1>6
    <2>2. Unrun' = {pipe[i] : i \in n + 1 + 1 .. Len(pipe)}
      BY <1>5 DEF Unrun
    <2> QED BY <2>1, <2>2
  <1> QED BY <1>1, <1>2, <1>3, <1>4, <1>5, <1>6, <1>7, <1>8

(* PostgreSQL runs the statements in the order they were sent. *)
LEMMA RunOrdered ==
  ASSUME Typed, Sent, Standing, Execute
  PROVE  Ordered'
  <1>1. pipe' = pipe /\ n' \in {n, n + 1}
    BY RunPipe DEF Execute
  <1> QED BY <1>1, RunsNext, OrderedSame DEF Standing

(* A set_config is run: the one of the record, after the SAVEPOINTs of the   *)
(* record's level and before those of the deeper ones.                       *)
LEMMA SetRun ==
  ASSUME Typed, Sent, Chained, Peaceful, Claimed, Marked, Standing, Execute,
         Head(wire).op = "set"
  PROVE  Standing'
  <1> DEFINE s == Head(wire)
             k == Len(log) + 1
  <1>1. /\ stage' = stage /\ lvl' = lvl /\ bound' = bound /\ level' = level /\ Open' = Open
        /\ s \in Pending /\ Waiting("set", s.by) /\ n + 1 \in n + 1 .. Len(pipe)
        /\ pipe[n + 1] = s /\ n \in Nat
        /\ \A u \in Unrun' : \E i \in n + 1 .. Len(pipe) : pipe[i] = u /\ n + 1 < i
    BY RunsNext
  <1>2. log' = Append(log, [set |-> wants[s.by], by |-> s.by])
    BY DEF Execute
  <1>3. /\ s \in Unrun /\ Ran' = Ran \cup {s} /\ Unrun' = Unrun \ {s}
        /\ \A u \in Ran \cup Unrun' : u.by # s.by
    BY RunSets
  <1> HIDE DEF s
  <1>4. s.op = "set"
    BY DEF s
  <1>5. wants[s.by] = bound /\ wants[s.by] # NoId /\ \A u \in Unrun' : u.op # "set"
    <2>1. s.by = ready /\ bound = wants[ready]
      BY <1>1, <1>4 DEF Claimed
    <2>2. \A u \in Pending : u.op = "set" => u.by = s.by
      BY <2>1 DEF Claimed
    <2> QED BY <1>1, <1>3, <2>1, <2>2 DEF Waiting, Pending
  <1>6. SetAt = {}
    BY <1>3, <1>4 DEF Standing, Recorded
  <1>7. \A u \in Ran' : u.op # "rollback"
    <2>1. ASSUME NEW u \in Pending, u.op = "rollback" PROVE FALSE
      <3>1. u.by \in Frames /\ stage[u.by] = "undoing"
        BY <2>1, PendingFacts DEF Waiting
      <3>2. s.op = "rollback"
        BY <1>1, <3>1, Alone
      <3> QED BY <1>4, <3>2
    <2> QED BY <1>1, <1>3, <2>1 DEF Pending
  <1>8. /\ k \in Nat /\ SetAt' = {k} /\ log'[k].set = bound
        /\ \A f \in Frames : Marks'[f] = Marks[f] /\ \A j \in Marks[f] : j < k
    <2> DEFINE e == [set |-> wants[s.by], by |-> s.by]
    <2>1. e.set = bound /\ e.set # NoId /\ \A f \in Frames : e # Mark(f)
      BY <1>5 DEF Mark
    <2> HIDE DEF e
    <2>2. log' = Append(log, e)
      BY <1>2 DEF e
    <2>3. /\ Len(log) \in Nat /\ k \in Nat /\ SetAt' = {k} /\ log'[k] = e
          /\ \A f \in Frames : Marks'[f] = Marks[f]
      BY <1>6, <2>1, <2>2, Logged
    <2>4. \A f \in Frames : \A j \in Marks[f] : j \in 1 .. Len(log)
      BY DEF Marks
    <2> QED BY <2>1, <2>3, <2>4
  <1> HIDE DEF k
  <1>9. Recorded'
    <2>1. \A i, j \in SetAt' : i = j
      BY <1>8
    <2>2. \A i \in SetAt' : log'[i].set = bound'
      BY <1>1, <1>8
    <2>3. SetAt' # {}
      BY <1>8
    <2> QED BY <1>5, <1>7, <2>1, <2>2, <2>3 DEF Recorded
  <1>10. Levelled'
    <2>1. ASSUME NEW f \in Open', NEW j \in Marks'[f]
          PROVE  j < k /\ lvl'[f] <= level'
      <3>1. f \in Open /\ f \in Frames
        BY <1>1, <2>1 DEF Open
      <3>2. j < k /\ Marks[f] # {}
        BY <1>8, <2>1, <3>1
      <3>3. lvl[f] <= level
        BY <1>3, <1>4, <3>1, <3>2 DEF Standing, Levelled
      <3> QED BY <1>1, <3>2, <3>3
    <2>2. \A u \in Unrun' : u.op = "savepoint" => ~ (lvl[u.by] <= level)
      <3>1. ASSUME NEW u \in Unrun', u.op = "savepoint" PROVE ~ (lvl[u.by] <= level)
        <4>1. PICK j \in n + 1 .. Len(pipe) : pipe[j] = u /\ n + 1 < j
          BY <1>1, <3>1
        <4>2. ~ (j < n + 1)
          BY <1>1, <4>1
        <4> QED BY <1>1, <1>4, <3>1, <4>1, <4>2 DEF Standing, Ordered
      <3> QED BY <3>1
    <2> QED BY <1>1, <1>5, <1>8, <2>1, <2>2 DEF Levelled
  <1> QED BY <1>9, <1>10, RunOrdered DEF Standing

(* A SAVEPOINT is run. *)
LEMMA SavepointRun ==
  ASSUME Typed, Sent, Marked, Standing, Execute, Head(wire).op = "savepoint"
  PROVE  Standing'
  <1> DEFINE s == Head(wire)
             k == Len(log) + 1
  <1>1. /\ stage' = stage /\ lvl' = lvl /\ bound' = bound /\ level' = level /\ Open' = Open
        /\ Waiting("savepoint", s.by) /\ n + 1 \in n + 1 .. Len(pipe)
        /\ pipe[n + 1] = s /\ n \in Nat
        /\ \A u \in Unrun' : \E i \in n + 1 .. Len(pipe) : pipe[i] = u /\ n + 1 < i
    BY RunsNext
  <1>2. log' = Append(log, [set |-> NoId, by |-> s.by])
    BY DEF Execute
  <1>3. s \in Unrun /\ Ran' = Ran \cup {s} /\ Unrun' = Unrun \ {s}
    BY RunSets
  <1> HIDE DEF s
  <1>4. s.op = "savepoint"
    BY DEF s
  <1>5. s.by \in Frames /\ Marks[s.by] = {}
    BY <1>1, <1>4 DEF Waiting, Marked
  <1>6. /\ k \in Nat /\ SetAt' = SetAt /\ \A i \in SetAt : log'[i] = log[i] /\ i < k
        /\ Marks'[s.by] = {k} /\ \A f \in Frames \ {s.by} : Marks'[f] = Marks[f]
    <2> DEFINE e == Mark(s.by)
    <2>1. e.set = NoId /\ \A f \in Frames : e = Mark(f) <=> f = s.by
      BY DEF Mark
    <2> HIDE DEF e
    <2>2. log' = Append(log, e)
      BY <1>2 DEF e, Mark
    <2>3. /\ Len(log) \in Nat /\ k \in Nat /\ SetAt' = SetAt
          /\ \A i \in SetAt : i \in 1 .. Len(log) /\ log'[i] = log[i]
          /\ \A f \in Frames : Marks'[f] = IF e = Mark(f) THEN Marks[f] \cup {k} ELSE Marks[f]
      BY <2>1, <2>2, Logged
    <2>4. \A i \in 1 .. Len(log) : i < k
      BY <2>3
    <2>5. Marks'[s.by] = {k}
      BY <1>5, <2>1, <2>3
    <2>6. \A f \in Frames \ {s.by} : Marks'[f] = Marks[f]
      BY <2>1, <2>3
    <2> HIDE DEF k
    <2> QED BY <2>3, <2>4, <2>5, <2>6
  <1> HIDE DEF k
  <1>7. Recorded'
    <2>1. (\E u \in Unrun' : u.op = "set") <=> (\E u \in Unrun : u.op = "set")
      BY <1>3, <1>4
    <2>2. \A u : u \in Ran' /\ u.op = "rollback" <=> u \in Ran /\ u.op = "rollback"
      BY <1>3, <1>4
    <2>3. \A u : u \in Ran' /\ u.op = "rollback" /\ lvl'[u.by] <= level'
              <=> u \in Ran /\ u.op = "rollback" /\ lvl[u.by] <= level
      BY <1>1, <2>2
    <2>4. (\E u \in Ran' : u.op = "rollback" /\ lvl'[u.by] <= level')
             <=> (\E u \in Ran : u.op = "rollback" /\ lvl[u.by] <= level)
      BY <2>3
    <2>5. \A i \in SetAt' : log'[i].set = bound'
      BY <1>1, <1>6 DEF Standing, Recorded
    <2> QED BY <1>1, <1>6, <2>1, <2>3, <2>4, <2>5 DEF Standing, Recorded
  <1>8. Levelled'
    <2>1. ASSUME NEW f \in Open', NEW i \in SetAt', NEW j \in Marks'[f]
          PROVE  j < i <=> lvl'[f] <= level'
      <3>1. f \in Open /\ f \in Frames /\ i \in SetAt
        BY <1>1, <1>6, <2>1 DEF Open
      <3>2. CASE f = s.by
        <4>1. j = k /\ ~ (lvl[f] <= level)
          BY <1>3, <1>4, <1>6, <2>1, <3>1, <3>2 DEF Standing, Levelled
        <4>2. i \in Nat /\ i < k
          BY <1>6, <3>1 DEF SetAt
        <4> QED BY <1>1, <1>6, <4>1, <4>2
      <3>3. CASE f # s.by
        BY <1>1, <1>6, <2>1, <3>1, <3>3 DEF Standing, Levelled
      <3> QED BY <3>2, <3>3
    <2>2. \A u \in Unrun' : u.op = "savepoint" /\ lvl'[u.by] <= level' => SetAt' = {}
      BY <1>1, <1>3, <1>6 DEF Standing, Levelled
    <2>3. ASSUME NEW u \in Unrun', u.op = "set", NEW f \in Open', Marks'[f] # {}
          PROVE  lvl'[f] <= level'
      <3>1. f \in Open /\ f \in Frames
        BY <1>1, <2>3 DEF Open
      <3>2. CASE f = s.by
        <4>1. PICK j \in n + 1 .. Len(pipe) : pipe[j] = u /\ n + 1 < j
          BY <1>1, <2>3
        <4> QED BY <1>1, <1>4, <2>3, <3>2, <4>1 DEF Standing, Ordered
      <3>3. CASE f # s.by
        <4>1. Marks[f] # {} /\ u \in Unrun
          BY <1>3, <1>6, <2>3, <3>1, <3>3
        <4> QED BY <1>1, <2>3, <3>1, <4>1 DEF Standing, Levelled
      <3> QED BY <3>2, <3>3
    <2> QED BY <2>1, <2>2, <2>3 DEF Levelled
  <1> QED BY <1>7, <1>8, RunOrdered DEF Standing

(* A ROLLBACK TO is run, alone: it undoes the setting just when the record   *)
(* is of the frame's level.                                                  *)
LEMMA RollbackRun ==
  ASSUME Typed, Typed', Sent, Chained, Peaceful, Marked, Standing, Execute,
         Head(wire).op = "rollback"
  PROVE  Standing'
  <1> DEFINE s == Head(wire)
  <1>1. /\ stage' = stage /\ lvl' = lvl /\ bound' = bound /\ level' = level /\ Open' = Open
        /\ s \in Pending /\ Waiting("rollback", s.by)
    BY RunsNext
  <1>2. log' = CutTo(s.by)
    BY DEF Execute
  <1>3. /\ s \in Unrun /\ Ran' = Ran \cup {s} /\ Unrun' = Unrun \ {s}
        /\ \A u \in Ran \cup Unrun' : u.by # s.by
    BY RunSets
  <1> HIDE DEF s
  <1>4. s.op = "rollback"
    BY DEF s
  <1>5. s.by \in Frames /\ stage[s.by] = "undoing" /\ s.by \in Open /\ Marks[s.by] # {}
    BY <1>1, <1>4 DEF Waiting, Open, Marked, HasSavepoint
  <1>6. Ran' = {s} /\ Unrun' = {} /\ Ran = {} /\ \A u \in Unrun : u.op # "set"
    <2>1. \A u \in Pending : u.op = "rollback" /\ u.by = s.by
      BY <1>5, Alone
    <2> QED BY <1>3, <2>1 DEF Pending
  <1>7. PICK k \in Marks[s.by] :
          /\ k \in 1 .. Len(log) /\ log[k] = Mark(s.by) /\ k \in Nat
          /\ Len(log') = k /\ \A i \in 1 .. k : log'[i] = log[i]
    BY <1>2, <1>5, Cut
  <1>8. \A i \in 1 .. k : i \in 1 .. Len(log)
    BY <1>7 DEF Typed
  <1>9. SetAt' = {i \in SetAt : ~ (k < i)}
    <2>1. Len(log) \in Nat
      BY DEF Typed
    <2>2. \A i \in 1 .. Len(log) : ~ (k < i) <=> i \in 1 .. k
      BY <1>7, <2>1
    <2> QED BY <1>7, <1>8, <2>2 DEF SetAt
  <1>10. \A f \in Frames : Marks'[f] \subseteq Marks[f]
    BY <1>7, <1>8 DEF Marks, Mark
  <1>11. \A i \in SetAt : k < i <=> lvl[s.by] <= level
    BY <1>5, <1>7 DEF Standing, Levelled
  <1>12. Recorded'
    <2>1. \A i \in SetAt' : log'[i] = log[i] /\ i \in SetAt
      BY <1>7, <1>9 DEF SetAt
    <2>2. bound # NoId => SetAt # {}
      BY <1>6 DEF Standing, Recorded
    <2>3. lvl[s.by] <= level => SetAt' = {}
      BY <1>9, <1>11
    <2>4. ~ (lvl[s.by] <= level) => SetAt' = SetAt
      BY <1>9, <1>11
    <2>5. \A i, j \in SetAt' : i = j
      BY <2>1 DEF Standing, Recorded
    <2>6. \A i \in SetAt' : log'[i].set = bound'
      BY <1>1, <2>1 DEF Standing, Recorded
    <2> QED BY <1>1, <1>4, <1>6, <2>2, <2>3, <2>4, <2>5, <2>6 DEF Recorded
  <1>13. Levelled'
    <2>1. \A f \in Open', i \in SetAt' : \A j \in Marks'[f] : j < i <=> lvl'[f] <= level'
      <3>1. \A f \in Open' : f \in Open /\ f \in Frames
        BY <1>1 DEF Open
      <3> QED BY <1>1, <1>9, <1>10, <3>1 DEF Standing, Levelled
    <2> QED BY <1>6, <2>1 DEF Levelled
  <1> QED BY <1>12, <1>13, RunOrdered DEF Standing

(* PostgreSQL running a statement keeps the setting and its record together. *)
LEMMA ExecuteStanding ==
  ASSUME Typed, Typed', Sent, Chained, Peaceful, Claimed, Marked, Standing, Execute
  PROVE  Standing'
  <1>1. Head(wire) \in Statement
    BY RunsNext
  <1>2. CASE Head(wire).op = "query"
    <2>1. log' = log
      BY <1>2 DEF Execute
    <2>2. Ran' = Ran \cup {Head(wire)} /\ Unrun' = Unrun \ {Head(wire)}
      BY RunSets
    <2>3. bound' = bound /\ level' = level /\ lvl' = lvl /\ Open' = Open
      BY RunsNext
    <2>4. /\ \A s \in Unrun : s.op = "set" => s \in Unrun'
          /\ \A s \in Ran' : s.op = "rollback" => s \in Ran
          /\ \A s \in Unrun' : s \in Unrun
          /\ \A s \in Ran : s \in Ran'
      BY <1>2, <2>2
    <2> QED BY <2>1, <2>3, <2>4, RunOrdered, StandingKept
  <1>3. Head(wire).op \in Ops
    BY <1>1 DEF Statement
  <1> QED BY <1>2, <1>3, SetRun, SavepointRun, RollbackRun DEF Ops

-----------------------------------------------------------------------------
(* The settings queries run under. *)

RanBound ==
    /\ QueriesRunBound
    /\ \A s \in Ran : s.op = "query" => ranUnder[s.by] = wants[s.by]

(* The setting a statement sees is the one there is. *)
LEMMA SettingSeen ==
  ASSUME Typed, Recorded
  PROVE  SettingIn(log) = IF SetAt = {} THEN NoId ELSE bound
  <1>1. DOMAIN log = 1 .. Len(log)
    BY DEF Typed
  <1>2. SetAt = {i \in DOMAIN log : log[i].set # NoId}
    BY <1>1 DEF SetAt
  <1>3. CASE SetAt = {}
    BY <1>2, <1>3 DEF SettingIn
  <1>4. CASE SetAt # {}
    <2>1. PICK i \in SetAt : TRUE
      BY <1>4
    <2>2. \A j \in SetAt : j = i
      BY <2>1 DEF Recorded
    <2>3. i \in Nat
      BY <2>1 DEF SetAt
    <2>4. \A j \in SetAt : j <= i
      BY <2>2, <2>3
    <2>5. (CHOOSE j \in SetAt : \A m \in SetAt : m <= j) = i
      BY <2>1, <2>2, <2>4
    <2>6. SettingIn(log) = log[i].set
      BY <1>2, <1>4, <2>5 DEF SettingIn
    <2> QED BY <1>4, <2>1, <2>6 DEF Recorded
  <1> QED BY <1>3, <1>4

(* A query reaches PostgreSQL while the record's setting is in place. *)
LEMMA QuerySees ==
  ASSUME Typed, Sent, Chained, Peaceful, Claimed, Standing, Execute,
         Head(wire).op = "query"
  PROVE  SettingIn(log) = wants[Head(wire).by]
  <1> DEFINE s == Head(wire)
  <1>1. s \in Pending /\ s.by \in Tasks /\ place[s.by] = "querying"
    BY RunsNext DEF Waiting
  <1> HIDE DEF s
  <1>2. s.op = "query"
    BY DEF s
  <1>3. bound = wants[s.by] /\ bound # NoId /\ ready \in settled \cup {Nobody}
    BY <1>1 DEF Claimed, InFlight
  <1>4. \A u \in Unrun : u.op # "set"
    <2>1. ASSUME NEW u \in Unrun, u.op = "set" PROVE FALSE
      <3>1. u \in Pending
        BY <2>1 DEF Pending
      <3>2. u.by = ready /\ ready \notin settled /\ u.by \in Actors
        BY <2>1, <3>1, PendingFacts DEF Claimed
      <3> QED BY <1>3, <3>2, BindingAssumption DEF Actors
    <2> QED BY <2>1
  <1>5. \A u \in Ran : u.op # "rollback"
    <2>1. ASSUME NEW u \in Ran, u.op = "rollback" PROVE FALSE
      <3>1. u.by \in Frames /\ stage[u.by] = "undoing"
        BY <2>1, PendingFacts DEF Waiting, Pending
      <3>2. s.op = "rollback"
        BY <1>1, <3>1, Alone
      <3> QED BY <1>2, <3>2
    <2> QED BY <2>1
  <1>6. SetAt # {}
    BY <1>3, <1>4, <1>5 DEF Standing, Recorded
  <1>7. SettingIn(log) = bound
    BY <1>6, SettingSeen DEF Standing
  <1> QED BY <1>3, <1>7 DEF s

(* A step that runs no query, and lets go only of queries that ran bound. *)
LEMMA RanBoundKept ==
  ASSUME RanBound, ranUnder' = ranUnder,
         \A t \in Tasks : place'[t] = "done" =>
            \/ place[t] = "done" /\ wants'[t] = wants[t]
            \/ ranUnder[t] = wants'[t],
         \A s \in Ran' : s.op = "query" => s \in Ran /\ wants'[s.by] = wants[s.by]
  PROVE  RanBound'
  BY DEF RanBound, QueriesRunBound

(* Every step of a calm transaction runs queries under their tenant. *)
LEMMA RanBoundNext ==
  ASSUME Calm, Typed, Typed', Sent, Chained, Peaceful, Claimed, Standing, RanBound, Next
  PROVE  RanBound'
  <1>a. /\ "set" \in Ops /\ "query" \in Ops /\ "savepoint" \in Ops /\ "rollback" \in Ops
        /\ Tasks \subseteq Actors /\ Frames \subseteq Actors /\ Tasks \cap Frames = {}
    BY BindingAssumption DEF Ops, Actors
  <1>b. ASSUME ranUnder' = ranUnder, wants' = wants, Ran' \subseteq Ran,
               \A t \in Tasks : place'[t] = "done" => place[t] = "done"
        PROVE  RanBound'
    BY <1>b, RanBoundKept
  <1>1. ASSUME NEW t \in Tasks, NEW c \in Contexts, NEW id \in Ids, Start(t, c, id)
        PROVE  RanBound'
    <2>1. /\ place[t] = "idle" /\ answers' = answers /\ ranUnder' = ranUnder
          /\ \A a \in Actors \ {t} : wants'[a] = wants[a]
          /\ place'[t] # "done" /\ \A u \in Tasks \ {t} : place'[u] = place[u]
      BY <1>1 DEF Start, Typed, db
    <2>2. Ran' = Ran
      <3>1. \A i \in 1 .. n : pipe[i] = answers[i]
        BY Piped
      <3>2. CASE wire' = wire
        BY <2>1, <3>2, SameSets
      <3>3. CASE Send("set", t)
        BY <2>1, <3>3, <1>a, SendSets
      <3>4. CASE Send("query", t)
        BY <2>1, <3>4, <1>a, SendSets
      <3> QED BY <1>1, <3>2, <3>3, <3>4 DEF Start, ClaimFirst, ClaimShared
    <2>3. \A s \in Ran : s.by # t /\ s.by \in Actors
      BY <2>1, PendingFacts, <1>a DEF Waiting, Ops, Pending
    <2> QED BY <1>a, <2>1, <2>2, <2>3, RanBoundKept
  <1>2. ASSUME NEW f \in Frames, NEW c \in Contexts, NEW id \in Tenants, CallFrame(f, c, id)
        PROVE  RanBound'
    <2>1. /\ place' = place /\ wire' = wire /\ answers' = answers /\ ranUnder' = ranUnder
          /\ stage[f] = "idle" /\ \A a \in Actors \ {f} : wants'[a] = wants[a]
      BY <1>2 DEF CallFrame, Typed, db
    <2>2. Ran' = Ran
      BY <2>1, SameSets
    <2>3. \A s \in Ran : s.by # f /\ s.by \in Actors
      BY <2>1, PendingFacts, <1>a DEF Waiting, Ops, Pending
    <2> QED BY <1>a, <2>1, <2>2, <2>3, RanBoundKept
  <1>3. ASSUME NEW f \in Frames, OpenFrame(f) \/ ReleaseFrame(f) \/ FailFrame(f)
        PROVE  RanBound'
    <2>1. wants' = wants /\ place' = place /\ ranUnder' = ranUnder /\ answers' = answers
      BY <1>3 DEF OpenFrame, ReleaseFrame, FailFrame, db
    <2>2. Ran' = Ran
      BY <1>3, <1>a, <2>1, SendSets, SameSets DEF OpenFrame, ReleaseFrame, FailFrame
    <2> QED BY <1>b, <2>1, <2>2
  <1>4. ASSUME Execute
        PROVE  RanBound'
    <2> DEFINE s == Head(wire)
    <2>1. /\ place' = place /\ wants' = wants /\ s \in Statement /\ Waiting(s.op, s.by)
      BY <1>4, RunsNext
    <2>2. Ran' = Ran \cup {s} /\ \A u \in Ran : u.by # s.by
      BY <1>4, RunSets
    <2>3. ranUnder' = IF s.op = "query" THEN [ranUnder EXCEPT ![s.by] = SettingIn(log)]
                      ELSE ranUnder
      BY <1>4 DEF Execute
    <2>4. s.op = "query" => SettingIn(log) = wants[s.by]
      BY <1>4, QuerySees
    <2> HIDE DEF s
    <2>5. CASE s.op = "query"
      <3>1. /\ s.by \in Tasks /\ place[s.by] # "done" /\ ranUnder'[s.by] = wants[s.by]
            /\ \A t \in Tasks \ {s.by} : ranUnder'[t] = ranUnder[t]
        BY <2>1, <2>3, <2>4, <2>5 DEF Waiting, Typed
      <3>2. QueriesRunBound'
        BY <2>1, <3>1 DEF RanBound, QueriesRunBound
      <3>3. ASSUME NEW u \in Ran', u.op = "query" PROVE ranUnder'[u.by] = wants'[u.by]
        <4>1. CASE u = s
          BY <2>1, <3>1, <4>1
        <4>2. CASE u # s
          <5>1. u \in Ran /\ u.by # s.by
            BY <2>2, <3>3, <4>2
          <5>2. u.by \in Tasks
            BY <3>3, <5>1, PendingFacts DEF Pending, Waiting
          <5> QED BY <2>1, <3>1, <3>3, <5>1, <5>2 DEF RanBound
        <4> QED BY <4>1, <4>2
      <3> QED BY <3>2, <3>3 DEF RanBound
    <2>6. CASE s.op # "query"
      BY <2>1, <2>2, <2>3, <2>6, RanBoundKept
    <2> QED BY <2>5, <2>6
  <1>5. ASSUME NEW t \in Tasks, QueryAnswered(t)
        PROVE  RanBound'
    <2>1. /\ wants' = wants /\ ranUnder' = ranUnder /\ Answered("query", t) /\ wire' = wire
          /\ \A u \in Tasks \ {t} : place'[u] = place[u]
      BY <1>5 DEF QueryAnswered, db, Typed
    <2> DEFINE s == [op |-> "query", by |-> t]
    <2>2. s \in Ran /\ Ran' \subseteq Ran /\ s.op = "query" /\ s.by = t
      BY <2>1, HandleSets
    <2> HIDE DEF s
    <2>3. ranUnder[t] = wants[t]
      BY <2>2 DEF RanBound
    <2> QED BY <2>1, <2>2, <2>3, RanBoundKept
  <1>6. ASSUME NEW a \in Actors, SetAnswered(a)
        PROVE  RanBound'
    <2>1. PICK q \in Seq(Statement) : wire' = wire \o q
      BY <1>6, Awakened
    <2>2. /\ wants' = wants /\ ranUnder' = ranUnder /\ Answered("set", a)
          /\ \A t \in Tasks : place'[t] = "done" => place[t] = "done"
      BY <1>6 DEF SetAnswered, db
    <2>3. Ran' \subseteq Ran
      BY <2>1, <2>2, HandlesSets
    <2> QED BY <1>b, <2>2, <2>3
  <1>7. ASSUME NEW f \in Frames, SavepointAnswered(f)
        PROVE  RanBound'
    <2>1. wants' = wants /\ ranUnder' = ranUnder /\ Answered("savepoint", f) /\ place' = place
      BY <1>7 DEF SavepointAnswered, db
    <2>2. Ran' \subseteq Ran
      <3>1. CASE wire' = wire
        BY <2>1, <3>1, HandleSets
      <3>2. CASE Send("set", f)
        BY <2>1, <3>2, <1>a, HandleSendSets
      <3>3. CASE Send("rollback", f)
        BY <2>1, <3>3, <1>a, HandleSendSets
      <3> QED BY <1>7, <3>1, <3>2, <3>3 DEF SavepointAnswered, ClaimFirst, ClaimShared
    <2> QED BY <1>b, <2>1, <2>2
  <1>8. ASSUME NEW f \in Frames, RollbackAnswered(f)
        PROVE  RanBound'
    <2>1. /\ wants' = wants /\ ranUnder' = ranUnder /\ Answered("rollback", f) /\ place' = place
          /\ wire' = wire
      BY <1>8 DEF RollbackAnswered, db
    <2>2. Ran' \subseteq Ran
      BY <2>1, HandleSets
    <2> QED BY <1>b, <2>1, <2>2
  <1> QED BY <1>1, <1>2, <1>3, <1>4, <1>5, <1>6, <1>7, <1>8 DEF Next

-----------------------------------------------------------------------------
(* What holds of every calm transaction. *)

CInv == IInv /\ Peaceful /\ Claimed /\ Standing /\ RanBound

(* It holds at BEGIN, bound or not. *)
LEMMA CalmInit ==
  ASSUME Init
  PROVE  CInv
  <1>1. IInv
    BY TypedInit, ChainedInit, MarkedInit DEF IInv
  <1>2. /\ \A f \in Frames : stage[f] = "idle"
        /\ \A t \in Tasks : place[t] = "idle"
        /\ settled = {} /\ Pending = {} /\ Ran = {} /\ Unrun = {} /\ Open = {}
    <2>1. n = 0 /\ Len(pipe) = 0
      BY MarkedInit
    <2>2. Ran = {} /\ Unrun = {}
      BY <2>1 DEF Ran, Unrun
    <2> QED BY <2>2 DEF Init, Pending, Open
  <1>3. Peaceful /\ Claimed /\ RanBound
    BY <1>2 DEF Peaceful, MayRollBack, Claimed, InFlight, RanBound, QueriesRunBound
  <1>4. Ordered
    <2>1. \A i \in n + 1 .. Len(pipe) : FALSE
      BY <1>2 DEF Unrun
    <2> QED BY <2>1 DEF Ordered
  <1>5. Levelled
    BY <1>2 DEF Levelled
  <1>6. Recorded
    <2>1. CASE bound = NoId
      <3>1. SetAt = {}
        BY <2>1 DEF Init, SetAt
      <3> QED BY <1>2, <2>1, <3>1 DEF Recorded
    <2>2. CASE bound # NoId
      <3>1. log = <<[set |-> bound, by |-> Root]>>
        BY <2>2 DEF Init
      <3>2. SetAt = {1} /\ log[1].set = bound
        BY <2>2, <3>1 DEF SetAt
      <3> QED BY <1>2, <3>2 DEF Recorded
    <2> QED BY <2>1, <2>2
  <1> QED BY <1>1, <1>3, <1>4, <1>5, <1>6 DEF CInv, Standing

(* A stuttering step keeps it. *)
LEMMA CalmStutter ==
  ASSUME CInv, UNCHANGED vars
  PROVE  CInv'
  <1>1. /\ stage' = stage /\ parent' = parent /\ lvl' = lvl /\ place' = place
        /\ context' = context /\ wants' = wants /\ waits' = waits /\ bound' = bound
        /\ level' = level /\ openLevel' = openLevel /\ ready' = ready /\ settled' = settled
        /\ wire' = wire /\ answers' = answers /\ log' = log /\ ranUnder' = ranUnder
    BY DEF vars, calls, record, db
  <1>2. /\ Open' = Open /\ pipe' = pipe /\ n' = n /\ Marks' = Marks /\ Ran' = Ran /\ Unrun' = Unrun
        /\ Pending' = Pending /\ SetAt' = SetAt
    BY <1>1 DEF Open, pipe, n, Marks, Mark, Ran, Unrun, Pending, SetAt
  <1>3. IInv'
    BY Stutter DEF CInv
  <1>4. Peaceful' /\ Claimed' /\ RanBound'
    BY <1>1, <1>2 DEF CInv, Peaceful, MayRollBack, Claimed, InFlight, RanBound, QueriesRunBound
  <1>5. Standing'
    BY <1>1, <1>2 DEF CInv, Standing, Recorded, Levelled, Ordered
  <1> QED BY <1>3, <1>4, <1>5 DEF CInv

(* Every step of a calm transaction keeps the setting and its record together. *)
LEMMA StandingNext ==
  ASSUME Calm, IInv, Typed', Peaceful, Claimed, Standing, Next
  PROVE  Standing'
  <1> USE DEF IInv
  <1>1. ASSUME NEW t \in Tasks, NEW c \in Contexts, NEW id \in Ids, Start(t, c, id)
        PROVE  Standing'
    BY <1>1, StartStanding
  <1>2. ASSUME NEW f \in Frames, \/ \E c \in Contexts, id \in Tenants : CallFrame(f, c, id)
                                 \/ OpenFrame(f) \/ ReleaseFrame(f) \/ FailFrame(f)
        PROVE  Standing'
    BY <1>2, FramesStanding
  <1>3. ASSUME Execute
        PROVE  Standing'
    BY <1>3, ExecuteStanding
  <1>4. ASSUME NEW t \in Tasks, QueryAnswered(t)
        PROVE  Standing'
    <2>1. /\ log' = log /\ bound' = bound /\ level' = level /\ lvl' = lvl /\ wire' = wire
          /\ Answered("query", t) /\ Open' = Open
      BY <1>4 DEF QueryAnswered, db, record, Open
    <2>2. << >> \in Seq(Statement) /\ wire' = wire \o << >> /\ \A i \in 1 .. Len(<< >>) : FALSE
      BY <2>1, ConcatEmptySeq DEF Typed
    <2> QED BY <2>1, <2>2, AnswerStanding
  <1>5. ASSUME NEW a \in Actors, SetAnswered(a)
        PROVE  Standing'
    <2>1. PICK q \in Seq(Statement) : wire' = wire \o q /\ \A i \in 1 .. Len(q) : q[i].op = "query"
      BY <1>5, Awakened
    <2>2. /\ log' = log /\ bound' = bound /\ level' = level /\ lvl' = lvl /\ Answered("set", a)
          /\ \A f \in Frames : stage'[f] = stage[f] \/ (stage[f] = "binding" /\ stage'[f] = "running")
      BY <1>5 DEF SetAnswered, db
    <2>3. \A g \in Open' : g \in Open
      BY <2>2 DEF Open
    <2> QED BY <2>1, <2>2, <2>3, AnswerStanding
  <1>6. ASSUME NEW f \in Frames, SavepointAnswered(f)
        PROVE  Standing'
    BY <1>6, SavepointStanding
  <1>7. ASSUME NEW f \in Frames, RollbackAnswered(f)
        PROVE  Standing'
    BY <1>7, RollbackStanding
  <1> QED BY <1>1, <1>2, <1>3, <1>4, <1>5, <1>6, <1>7 DEF Next

(* It holds of every calm transaction. *)
LEMMA CalmAlways ==
  ASSUME Calm
  PROVE  Spec => []CInv
  <1>1. Init => CInv
    BY CalmInit
  <1>2. CInv /\ IInv' /\ [Next]_vars => CInv'
    <2> SUFFICES ASSUME CInv, IInv', Next PROVE CInv'
      BY CalmStutter
    <2>1. Typed' /\ IInv
      BY DEF CInv, IInv
    <2>2. Peaceful' /\ Claimed'
      BY <2>1, PeacefulNext, ClaimedNext DEF CInv, IInv
    <2>3. Standing' /\ RanBound'
      BY <2>1, StandingNext, RanBoundNext DEF CInv, IInv
    <2> QED BY <2>2, <2>3 DEF CInv
  <1> QED BY <1>1, <1>2, IInvAlways, PTL DEF Spec

(* A query of a TenantRepository call runs under the tenant it was made for, *)
(* when no frame can be rolled back while such a call is on its way          *)
(* (claimTransactionBinding, session.ts R3/R4).                              *)
THEOREM QueriesAlwaysRunBound ==
  ASSUME Calm
  PROVE  Spec => []QueriesRunBound
  <1>1. CInv => QueriesRunBound
    BY DEF CInv, RanBound
  <1> QED BY <1>1, CalmAlways, PTL

(* With nothing on its way, the record is what PostgreSQL would answer, and  *)
(* its level tells the frames whose ROLLBACK TO would undo the setting       *)
(* (promoteBindingClaims, discardBindingClaims).                             *)
THEOREM RecordAlwaysInStep ==
  ASSUME Calm
  PROVE  Spec => []RecordInStep
  <1>1. CInv => RecordInStep
    <2> SUFFICES ASSUME CInv, Quiet PROVE RecordInStep
      BY DEF RecordInStep
    <2> USE DEF CInv, IInv
    <2>1. Ran = {} /\ Unrun = {}
      <3>1. n = 0 /\ Len(pipe) = 0
        BY DEF Quiet, n, pipe
      <3> QED BY <3>1 DEF Ran, Unrun
    <2>2. bound # NoId => SetAt # {}
      BY <2>1 DEF Standing, Recorded
    <2>3. bound = SettingIn(log)
      BY <2>2, SettingSeen DEF Standing
    <2>4. ASSUME bound # NoId, NEW f \in Frames, HasSavepoint(f)
          PROVE  SetAfter(f) <=> lvl[f] <= level
      <3>1. Marks[f] # {} /\ f \in Open
        BY <2>4 DEF Marked, HasSavepoint, Open
      <3>2. PositionOf(f) \in Marks[f] /\ PositionOf(f) \in Nat
        BY <3>1, Cut
      <3>3. DOMAIN log = 1 .. Len(log)
        BY DEF Typed
      <3>4. SetAfter(f) <=> \E i \in SetAt : i > PositionOf(f)
        BY <3>3 DEF SetAfter, SetAt
      <3>5. \A i \in SetAt : i > PositionOf(f) <=> PositionOf(f) < i
        BY <3>2 DEF SetAt
      <3> QED BY <2>2, <2>4, <3>1, <3>2, <3>4, <3>5 DEF Standing, Levelled
    <2> QED BY <2>3, <2>4 DEF RecordInStep
  <1> QED BY <1>1, CalmAlways, PTL
======================================================================================
