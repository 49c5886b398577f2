----------------------- MODULE TransformProcessProofs -----------------------
(* Proofs about TransformProcess, for any number of calls and stray lines:   *)
(* its types, that a call only ever returns its own batch's actions, that a  *)
(* batch is handed over at most twice, and that the pipes and respawns       *)
(* implement TransformCall.                                                  *)
EXTENDS TransformProcess, TLAPS

----------------------------------------------------------------------------
(* The inductive invariant.  Answers carry no name, so what a pipe holds     *)
(* must be tied to where the call is: nothing is owed while the call is not  *)
(* reading, one line for this very batch while it is.                        *)

Noise(l) == l.kind = "noise"
Answer(b) == [kind |-> "answer", batch |-> b]

OnlyNoise(s) == \A k \in 1 .. Len(s) : Noise(s[k])
OneAnswer(s, b) ==
  \E k \in 1 .. Len(s) : s[k] = Answer(b) /\ \A j \in 1 .. Len(s) : j # k => Noise(s[j])

Quiet == stdin = <<>> /\ working = NoBatch /\ OnlyNoise(stdout)

Owed ==
  \/ Quiet
  \/ stdin = <<call>> /\ working = NoBatch /\ OnlyNoise(stdout)
  \/ stdin = <<>> /\ working = call /\ OnlyNoise(stdout)
  \/ stdin = <<>> /\ working = NoBatch /\ OneAnswer(stdout, call)

Paired ==
  ~strayed =>
    /\ stage \in {"idle", "send"} => Quiet
    /\ stage = "read" => Owed
    /\ stage = "parse" => (line = Answer(call) /\ Quiet) \/ Noise(line)

\* What was answered was run, and only what was handed over is run.
Answered ==
  /\ \A k \in 1 .. Len(stdin) : stdin[k] <= call
  /\ working <= call
  /\ \A k \in 1 .. Len(stdout) : stdout[k].kind = "answer" => stdout[k].batch \in ran
  /\ line.kind = "answer" => line.batch \in ran

\* How often a batch can have been written, and where its timeout leaves it.
Counted ==
  /\ \A b \in Batches : handed[b] <= 2 /\ (b > call => handed[b] = 0)
  /\ stage = "send" => handed[call] <= attempt - 1
  /\ stage \in {"read", "parse", "respawn"} => handed[call] <= attempt
  /\ stage = "respawn" /\ after = "retry" => attempt = 1
  /\ \A b \in timedout : b <= call
  /\ call \in timedout => stage = "idle" \/ (stage = "respawn" /\ after = "fail")

IInv == TypeOK /\ Paired /\ Answered /\ Counted

----------------------------------------------------------------------------
(* Types.                                                                    *)

LEMMA LineFacts ==
  /\ \A b \in Batches : [kind |-> "answer", batch |-> b] \in Lines
  /\ \A k \in {"actions", "noise"} : [kind |-> k, batch |-> NoBatch] \in Lines
  /\ \A l \in Lines \cup {NoLine} : l.kind = "answer" => l.batch \in Batches /\ l = [kind |-> "answer", batch |-> l.batch]
  /\ \A l \in Lines : l.kind \in {"answer", "actions", "noise"}
  /\ NoLine.kind = "none" /\ NoBatch = 0 /\ NoBatch \notin Batches
  /\ Batches = 1 .. MaxCalls /\ MaxCalls \in Nat /\ MaxStrays \in Nat
  BY BoundsAssumption DEF Lines, Answers, NoLine, NoBatch, Batches

LEMMA EmptyPipes == <<>> \in Seq(Batches) /\ <<>> \in Seq(Lines)
  OBVIOUS

LEMMA InitTypeOK == Init => TypeOK
<1> SUFFICES ASSUME Init PROVE TypeOK
  OBVIOUS
<1>1. handed \in [Batches -> Nat]
  BY DEF Init
<1>2. strays \in 0 .. MaxStrays /\ call \in 0 .. MaxCalls
  BY LineFacts DEF Init
<1> QED
  BY <1>1, <1>2, LineFacts, EmptyPipes DEF Init, TypeOK

LEMMA NextTypeOK == TypeOK /\ [Next]_vars => TypeOK'
<1> SUFFICES ASSUME TypeOK, [Next]_vars PROVE TypeOK'
  OBVIOUS
<1> USE LineFacts, EmptyPipes DEF TypeOK
<1>1. CASE TransformBatch
  <2>1. call' \in Batches /\ call' \in 0 .. MaxCalls
    BY <1>1 DEF TransformBatch
  <2>2. /\ child' \in {"none", "live", "exited"} /\ stdin' \in Seq(Batches)
        /\ working' \in Batches \cup {NoBatch} /\ stdout' \in Seq(Lines) /\ strayed' \in BOOLEAN
    BY <1>1 DEF TransformBatch, Spawn, NoChild, pipeVars
  <2>3. /\ stage' \in {"idle", "send"} /\ outcome' \in {"pending", "failed"}
        /\ stage' = "idle" <=> outcome' # "pending"
        /\ stage' # "idle" => child' # "none"
    BY <1>1 DEF TransformBatch, Spawn, Return
  <2> QED
    BY <1>1, <2>1, <2>2, <2>3 DEF TransformBatch
<1>2. CASE Write
  BY <1>2 DEF Write
<1>3. CASE ReadLine
  BY <1>3 DEF ReadLine
<1>4. CASE ProcessError
  BY <1>4 DEF ProcessError, Broken, pipeVars
<1>5. CASE Timeout
  BY <1>5 DEF Timeout, OnTimeout, pipeVars
<1>6. CASE Parse
  BY <1>6 DEF Parse, Return, OnUnparsable, pipeVars
<1>7. CASE Respawn
  BY <1>7 DEF Respawn, Spawn, NoChild, Return
<1>8. CASE Drop
  BY <1>8 DEF Drop, NoChild, callVars
<1>9. CASE ScriptReads
  BY <1>9 DEF ScriptReads, callVars
<1>10. CASE ScriptAnswers
  BY <1>10 DEF ScriptAnswers, callVars
<1>11. CASE ScriptPrints
  BY <1>11 DEF ScriptPrints, callVars
<1>12. CASE ScriptExits
  <2>1. stdout' \in Seq(Lines)
    <3>1. [kind |-> "noise", batch |-> NoBatch] \in Lines
      BY DEF Lines
    <3>2. stdout \in Seq(Lines)
      OBVIOUS
    <3>3. stdout' = stdout \/ stdout' = Append(stdout, [kind |-> "noise", batch |-> NoBatch])
      BY <1>12 DEF ScriptExits
    <3>4. Append(stdout, [kind |-> "noise", batch |-> NoBatch]) \in Seq(Lines)
      BY <3>1, <3>2 
    <3> QED
      BY <3>2, <3>3, <3>4
  <2> QED
    BY <1>12, <2>1 DEF ScriptExits, callVars
<1>13. CASE UNCHANGED vars
  BY <1>13 DEF vars, pipeVars, callVars
<1> QED
  BY <1>1, <1>2, <1>3, <1>4, <1>5, <1>6, <1>7, <1>8, <1>9, <1>10, <1>11, <1>12, <1>13
     DEF Next, Process, Script

\* Every variable keeps its type, and a call past its start has a process to write
\* to: the expect in try_send cannot fail.
THEOREM TypeCorrect == Spec => []TypeOK
<1>1. Init => TypeOK
  BY InitTypeOK
<1>2. TypeOK /\ [Next]_vars => TypeOK'
  BY NextTypeOK
<1> QED
  BY <1>1, <1>2, PTL DEF Spec

----------------------------------------------------------------------------
(* Lines in a pipe.                                                          *)

LEMMA NoiseAppended ==
  ASSUME NEW s \in Seq(Lines), NEW l \in Lines, OnlyNoise(s), Noise(l)
  PROVE  OnlyNoise(Append(s, l))
  BY DEF OnlyNoise

LEMMA NoiseAfterAnswer ==
  ASSUME NEW s \in Seq(Lines), NEW l \in Lines, NEW b, OneAnswer(s, b), Noise(l)
  PROVE  OneAnswer(Append(s, l), b)
<1>1. PICK k \in 1 .. Len(s) : s[k] = Answer(b) /\ \A j \in 1 .. Len(s) : j # k => Noise(s[j])
  BY DEF OneAnswer
<1>2. k \in 1 .. Len(Append(s, l)) /\ Append(s, l)[k] = Answer(b)
  BY <1>1
<1>3. \A j \in 1 .. Len(Append(s, l)) : j # k => Noise(Append(s, l)[j])
  BY <1>1
<1> QED
  BY <1>2, <1>3 DEF OneAnswer

LEMMA AnswerAppended ==
  ASSUME NEW s \in Seq(Lines), NEW b, Answer(b) \in Lines, OnlyNoise(s)
  PROVE  OneAnswer(Append(s, Answer(b)), b)
<1> DEFINE t == Append(s, Answer(b))
<1>1. Len(t) = Len(s) + 1 /\ Len(s) \in Nat
  OBVIOUS
<1>2. Len(s) + 1 \in 1 .. Len(t) /\ t[Len(s) + 1] = Answer(b)
  BY <1>1
<1>3. \A j \in 1 .. Len(t) : j # Len(s) + 1 => Noise(t[j])
  BY <1>1 DEF OnlyNoise
<1> QED
  BY <1>2, <1>3 DEF OneAnswer

LEMMA HeadOfNoise ==
  ASSUME NEW s \in Seq(Lines), s # <<>>, OnlyNoise(s)
  PROVE  Noise(Head(s))
  BY DEF OnlyNoise

LEMMA HeadOfOne ==
  ASSUME NEW s \in Seq(Lines), NEW b, s # <<>>, OneAnswer(s, b)
  PROVE  Noise(Head(s)) \/ (Head(s) = Answer(b) /\ OnlyNoise(Tail(s)))
<1>1. PICK k \in 1 .. Len(s) : s[k] = Answer(b) /\ \A j \in 1 .. Len(s) : j # k => Noise(s[j])
  BY DEF OneAnswer
<1>2. CASE k = 1
  <2>1. \A j \in 1 .. Len(Tail(s)) : Tail(s)[j] = s[j + 1] /\ j + 1 \in 1 .. Len(s)
    OBVIOUS
  <2> QED
    BY <1>1, <1>2, <2>1 DEF OnlyNoise
<1>3. CASE k # 1
  BY <1>1, <1>3
<1> QED
  BY <1>2, <1>3

----------------------------------------------------------------------------
(* Pairing: what the pipes hold belongs to the call that is running.         *)

LEMMA NextPaired == TypeOK /\ Paired /\ [Next]_vars => Paired'
<1> SUFFICES ASSUME TypeOK, Paired, [Next]_vars, ~strayed'
             PROVE  /\ stage' \in {"idle", "send"} => Quiet'
                    /\ stage' = "read" => Owed'
                    /\ stage' = "parse" => (line' = Answer(call') /\ Quiet') \/ Noise(line')
  BY DEF Paired, Answer
<1> USE LineFacts DEF Paired
<1>t. stdout \in Seq(Lines) /\ stdin \in Seq(Batches) /\ stage \in {"idle", "send", "read", "parse", "respawn"}
  BY DEF TypeOK
<1>f. stdin' = <<>> /\ working' = NoBatch /\ stdout' = <<>> => Quiet'
  BY DEF Quiet, OnlyNoise
<1>s. UNCHANGED pipeVars /\ Quiet => Quiet'
  BY DEF Quiet, pipeVars
<1>1. CASE TransformBatch
  BY <1>1, <1>f, <1>s DEF TransformBatch, Spawn, NoChild, Return
<1>2. CASE Write
  <2>1. Quiet /\ stdin' = Append(stdin, call) /\ UNCHANGED <<working, stdout, call>> /\ stage' = "read"
    BY <1>2 DEF Write
  <2>2. stdin' = <<call>>
    BY <2>1 DEF Quiet
  <2> QED
    BY <2>1, <2>2 DEF Owed, Quiet
<1>3. CASE ReadLine
  <2>1. /\ Owed /\ stdout # <<>> /\ line' = Head(stdout) /\ stdout' = Tail(stdout)
        /\ stage' = "parse" /\ UNCHANGED <<stdin, working, call>>
    BY <1>3 DEF ReadLine
  <2>2. CASE OnlyNoise(stdout)
    BY <2>1, <2>2, <1>t, HeadOfNoise
  <2>3. CASE stdin = <<>> /\ working = NoBatch /\ OneAnswer(stdout, call)
    <3>1. Noise(line') \/ (line' = Answer(call) /\ OnlyNoise(stdout'))
      BY <2>1, <2>3, <1>t, HeadOfOne
    <3> QED
      BY <2>1, <2>3, <3>1 DEF Quiet, Answer
  <2> QED
    BY <2>1, <2>2, <2>3 DEF Owed, Quiet
<1>4. CASE ProcessError
  BY <1>4 DEF ProcessError, Broken
<1>5. CASE Timeout
  BY <1>5 DEF Timeout, OnTimeout
<1>6. CASE Parse
  <2>1. CASE Parses(line)
    BY <1>6, <2>1, <1>s DEF Parse, Parses, Return, Noise
  <2>2. CASE ~Parses(line)
    BY <1>6, <2>2 DEF Parse, OnUnparsable
  <2> QED
    BY <2>1, <2>2
<1>7. CASE Respawn
  BY <1>7, <1>f DEF Respawn, Spawn, NoChild, Return
<1>8. CASE Drop
  BY <1>8, <1>f DEF Drop, NoChild, callVars
<1>9. CASE ScriptReads
  <2>1. /\ working = NoBatch /\ stdin # <<>> /\ working' = Head(stdin) /\ stdin' = Tail(stdin)
        /\ UNCHANGED <<stdout, call, stage, line>>
    BY <1>9 DEF ScriptReads, callVars
  <2>2. ~Quiet /\ ~strayed
    BY <2>1, <1>9 DEF Quiet, ScriptReads
  <2>3. CASE stage = "read"
    <3>1. stdin = <<call>> /\ OnlyNoise(stdout)
      BY <2>1, <2>2, <2>3 DEF Owed
    <3>2. working' = call' /\ stdin' = <<>>
      BY <2>1, <3>1
    <3> QED
      BY <2>1, <2>3, <3>1, <3>2 DEF Owed
  <2> QED
    BY <1>t, <2>1, <2>2, <2>3 DEF Noise
<1>10. CASE ScriptAnswers
  <2>1. /\ working # NoBatch /\ stdout' = Append(stdout, Answer(working)) /\ working' = NoBatch
        /\ UNCHANGED <<stdin, call, stage, line>> /\ ~strayed /\ ~Quiet
    BY <1>10 DEF ScriptAnswers, callVars, Answer, Quiet
  <2>2. CASE stage = "read"
    <3>1. stdin = <<>> /\ working = call /\ OnlyNoise(stdout)
      BY <2>1, <2>2 DEF Owed
    <3>2. Answer(call) \in Lines
      BY <2>2 DEF TypeOK, Answer
    <3>3. OneAnswer(stdout', call')
      BY <1>t, <2>1, <3>1, <3>2, AnswerAppended
    <3> QED
      BY <2>1, <2>2, <3>1, <3>3 DEF Owed
  <2> QED
    BY <1>t, <2>1, <2>2
<1>11. CASE ScriptPrints
  <2>1. PICK l \in Lines : Noise(l) /\ stdout' = Append(stdout, l)
    BY <1>11 DEF ScriptPrints, Noise
  <2>2. UNCHANGED <<stdin, working, call, stage, line>> /\ ~strayed
    BY <1>11 DEF ScriptPrints, callVars, TypeOK
  <2>3. Quiet => Quiet'
    BY <1>t, <2>1, <2>2, NoiseAppended DEF Quiet
  <2>4. Owed => Owed'
    BY <1>t, <2>1, <2>2, <2>3, NoiseAppended, NoiseAfterAnswer DEF Owed
  <2> QED
    BY <2>2, <2>3, <2>4
<1>12. CASE ScriptExits
  <2>1. UNCHANGED <<call, stage, line>> /\ ~strayed /\ stdin' = <<>> /\ working' = NoBatch
    BY <1>12 DEF ScriptExits, callVars
  <2>2. \/ stdout' = stdout
        \/ working # NoBatch /\ \E l \in Lines : Noise(l) /\ stdout' = Append(stdout, l)
    BY <1>12 DEF ScriptExits, Noise
  <2>3. OnlyNoise(stdout) => OnlyNoise(stdout')
    BY <1>t, <2>2, NoiseAppended
  <2>4. Quiet => Quiet'
    BY <2>1, <2>3 DEF Quiet
  <2>5. Owed => Owed'
    BY <2>1, <2>2, <2>3 DEF Owed, Quiet
  <2> QED
    BY <2>1, <2>4, <2>5
<1>13. CASE UNCHANGED vars
  <2>1. UNCHANGED <<stdin, working, stdout, call, stage, line, strayed>>
    BY <1>13 DEF vars, pipeVars, callVars
  <2> QED
    BY <2>1 DEF Owed, Quiet
<1> QED
  BY <1>1, <1>2, <1>3, <1>4, <1>5, <1>6, <1>7, <1>8, <1>9, <1>10, <1>11, <1>12, <1>13
     DEF Next, Process, Script

----------------------------------------------------------------------------
(* Answers were run, and hand-overs counted.                                 *)

LEMMA NextAnswered == TypeOK /\ Answered /\ [Next]_vars => Answered'
<1> SUFFICES ASSUME TypeOK, Answered, [Next]_vars PROVE Answered'
  OBVIOUS
<1> USE LineFacts DEF Answered
<1>t. /\ stdout \in Seq(Lines) /\ stdin \in Seq(Batches) /\ call \in 0 .. MaxCalls
      /\ working \in Batches \cup {NoBatch} /\ line \in Lines \cup {NoLine}
  BY DEF TypeOK
<1>1. CASE TransformBatch
  <2>1. call' = call + 1 /\ line' = NoLine /\ ran' = ran
    BY <1>1 DEF TransformBatch
  <2>2. (UNCHANGED pipeVars) \/ (stdin' = <<>> /\ working' = NoBatch /\ stdout' = <<>>)
    BY <1>1 DEF TransformBatch, Spawn, NoChild
  <2>3. CASE UNCHANGED pipeVars
    BY <1>t, <2>1, <2>3 DEF pipeVars
  <2>4. CASE stdin' = <<>> /\ working' = NoBatch /\ stdout' = <<>>
    BY <1>t, <2>1, <2>4
  <2> QED
    BY <2>2, <2>3, <2>4
<1>2. CASE Write
  <2>1. stdin' = Append(stdin, call) /\ UNCHANGED <<call, working, stdout, line, ran>>
    BY <1>2 DEF Write
  <2>2. \A k \in 1 .. Len(stdin') : stdin'[k] <= call
    BY <1>t, <2>1
  <2> QED
    BY <2>1, <2>2
<1>3. CASE ReadLine
  <2>1. /\ stdout # <<>> /\ line' = Head(stdout) /\ stdout' = Tail(stdout)
        /\ UNCHANGED <<call, working, stdin, ran>>
    BY <1>3 DEF ReadLine
  <2>2. \A k \in 1 .. Len(stdout') : k + 1 \in 1 .. Len(stdout) /\ stdout'[k] = stdout[k + 1]
    BY <1>t, <2>1
  <2>3. 1 \in 1 .. Len(stdout) /\ line' = stdout[1]
    BY <1>t, <2>1
  <2> QED
    BY <2>1, <2>2, <2>3
<1>4. CASE ProcessError
  BY <1>4 DEF ProcessError, Broken, pipeVars
<1>5. CASE Timeout
  BY <1>5 DEF Timeout, pipeVars
<1>6. CASE Parse
  BY <1>6 DEF Parse, pipeVars
<1>7. CASE Respawn
  BY <1>7, <1>t DEF Respawn, Spawn, NoChild
<1>8. CASE Drop
  BY <1>8, <1>t DEF Drop, NoChild, callVars
<1>9. CASE ScriptReads
  <2>1. /\ stdin # <<>> /\ working' = Head(stdin) /\ stdin' = Tail(stdin)
        /\ UNCHANGED <<call, stdout, line, ran>>
    BY <1>9 DEF ScriptReads, callVars
  <2>2. \A k \in 1 .. Len(stdin') : k + 1 \in 1 .. Len(stdin) /\ stdin'[k] = stdin[k + 1]
    BY <1>t, <2>1
  <2>3. 1 \in 1 .. Len(stdin) /\ working' = stdin[1]
    BY <1>t, <2>1
  <2> QED
    BY <2>1, <2>2, <2>3
<1>10. CASE ScriptAnswers
  <2>1. /\ stdout' = Append(stdout, Answer(working)) /\ ran' = ran \cup {working}
        /\ working' = NoBatch /\ UNCHANGED <<call, stdin, line>>
    BY <1>10 DEF ScriptAnswers, callVars, Answer
  <2>2. \A k \in 1 .. Len(stdout') : stdout'[k] = Answer(working) \/ (k \in 1 .. Len(stdout) /\ stdout'[k] = stdout[k])
    BY <1>t, <2>1
  <2> QED
    BY <1>t, <2>1, <2>2 DEF Answer
<1>11. CASE ScriptPrints
  <2>1. PICK l \in Lines : l.kind # "answer" /\ stdout' = Append(stdout, l)
    BY <1>11 DEF ScriptPrints
  <2>2. UNCHANGED <<stdin, working, call, line, ran>>
    BY <1>11 DEF ScriptPrints, callVars
  <2>3. \A k \in 1 .. Len(stdout') : stdout'[k] = l \/ (k \in 1 .. Len(stdout) /\ stdout'[k] = stdout[k])
    BY <1>t, <2>1
  <2> QED
    BY <2>1, <2>2, <2>3
<1>12. CASE ScriptExits
  <2>1. UNCHANGED <<call, line, ran>> /\ stdin' = <<>> /\ working' = NoBatch
    BY <1>12 DEF ScriptExits, callVars
  <2>2. stdout' = stdout \/ \E l \in Lines : l.kind # "answer" /\ stdout' = Append(stdout, l)
    BY <1>12 DEF ScriptExits
  <2>3. \A k \in 1 .. Len(stdout') : stdout'[k].kind # "answer" \/ (k \in 1 .. Len(stdout) /\ stdout'[k] = stdout[k])
    BY <1>t, <2>2
  <2> QED
    BY <1>t, <2>1, <2>3
<1>13. CASE UNCHANGED vars
  BY <1>13 DEF vars, pipeVars, callVars
<1> QED
  BY <1>1, <1>2, <1>3, <1>4, <1>5, <1>6, <1>7, <1>8, <1>9, <1>10, <1>11, <1>12, <1>13
     DEF Next, Process, Script

LEMMA NextCounted == TypeOK /\ Counted /\ [Next]_vars => Counted'
<1> SUFFICES ASSUME TypeOK, Counted, [Next]_vars PROVE Counted'
  OBVIOUS
<1> USE LineFacts DEF Counted
<1>t. /\ handed \in [Batches -> Nat] /\ timedout \subseteq Batches /\ call \in 0 .. MaxCalls
      /\ attempt \in {1, 2} /\ (stage # "idle" => call \in Batches)
      /\ stage \in {"idle", "send", "read", "parse", "respawn"}
  BY DEF TypeOK
<1>1. CASE TransformBatch
  <2>1. /\ call' = call + 1 /\ call' \in Batches /\ attempt' = 1 /\ stage' \in {"idle", "send"}
        /\ UNCHANGED <<handed, timedout>>
    BY <1>1, <1>t DEF TransformBatch, Return
  <2> QED
    BY <1>t, <2>1
<1>2. CASE Write
  <2>1. /\ stage = "send" /\ handed' = [handed EXCEPT ![call] = @ + 1] /\ stage' = "read"
        /\ UNCHANGED <<call, attempt, after, timedout>>
    BY <1>2 DEF Write
  <2>2. handed'[call] = handed[call] + 1 /\ \A b \in Batches : b # call => handed'[b] = handed[b]
    BY <1>t, <2>1
  <2>3. handed[call] \in Nat
    BY <1>t, <2>1
  <2> QED
    BY <1>t, <2>1, <2>2, <2>3
<1>3. CASE ReadLine
  BY <1>3, <1>t DEF ReadLine
<1>4. CASE ProcessError
  <2>1. /\ stage \in {"send", "read"} /\ stage' = "respawn" /\ (after' = "retry" => attempt = 1)
        /\ UNCHANGED <<call, attempt, handed, timedout>>
    BY <1>4 DEF ProcessError, Broken
  <2>2. handed[call] \in Nat
    BY <1>t, <2>1
  <2> QED
    BY <1>t, <2>1, <2>2
<1>5. CASE Timeout
  <2>1. /\ stage \in {"send", "read"} /\ stage' = "respawn" /\ after' = "fail"
        /\ timedout' = timedout \cup {call} /\ UNCHANGED <<call, attempt, handed>>
    BY <1>5 DEF Timeout, OnTimeout
  <2>2. handed[call] \in Nat
    BY <1>t, <2>1
  <2> QED
    BY <1>t, <2>1, <2>2
<1>6. CASE Parse
  BY <1>6, <1>t DEF Parse, Return, OnUnparsable
<1>7. CASE Respawn
  <2>1. /\ stage = "respawn" /\ UNCHANGED <<call, after, handed, timedout>>
        /\ \/ after = "retry" /\ stage' = "send" /\ attempt' = 2
           \/ stage' = "idle" /\ attempt' = attempt
    BY <1>7 DEF Respawn, Return
  <2> QED
    BY <1>t, <2>1
<1>8. CASE Drop
  BY <1>8 DEF Drop, callVars
<1>9. CASE ScriptReads
  BY <1>9 DEF ScriptReads, callVars
<1>10. CASE ScriptAnswers
  BY <1>10 DEF ScriptAnswers, callVars
<1>11. CASE ScriptPrints
  BY <1>11 DEF ScriptPrints, callVars
<1>12. CASE ScriptExits
  BY <1>12 DEF ScriptExits, callVars
<1>13. CASE UNCHANGED vars
  BY <1>13 DEF vars, pipeVars, callVars
<1> QED
  BY <1>1, <1>2, <1>3, <1>4, <1>5, <1>6, <1>7, <1>8, <1>9, <1>10, <1>11, <1>12, <1>13
     DEF Next, Process, Script

----------------------------------------------------------------------------
(* The theorems.                                                             *)

LEMMA InitIInv == Init => IInv
<1> SUFFICES ASSUME Init PROVE IInv
  OBVIOUS
<1>1. TypeOK
  BY InitTypeOK
<1>2. Paired
  BY DEF Init, Paired, Quiet, OnlyNoise
<1>3. Answered
  BY LineFacts DEF Init, Answered
<1>4. Counted
  BY LineFacts DEF Init, Counted
<1> QED
  BY <1>1, <1>2, <1>3, <1>4 DEF IInv

LEMMA Invariant == Spec => []IInv
<1>1. IInv /\ [Next]_vars => IInv'
  BY NextTypeOK, NextPaired, NextAnswered, NextCounted DEF IInv
<1> QED
  BY InitIInv, <1>1, PTL DEF Spec

\* How a call comes to an answer: it parses a line.
LEMMA OnlyParseAnswers ==
  ASSUME TypeOK, Next, outcome' = "answered", outcome' # outcome
  PROVE  Parse /\ Parses(line)
<1>1. CASE TransformBatch
  BY <1>1 DEF TransformBatch, Return
<1>2. CASE Parse
  BY <1>2 DEF Parse, Return, OnUnparsable
<1>3. CASE Respawn
  BY <1>3 DEF Respawn, Return
<1>4. CASE Write \/ ReadLine \/ ProcessError \/ Timeout
  BY <1>4 DEF Write, ReadLine, ProcessError, Broken, Timeout, OnTimeout
<1>5. CASE Drop \/ Script
  BY <1>5 DEF Drop, Script, ScriptReads, ScriptAnswers, ScriptPrints, ScriptExits, callVars
<1> QED
  BY <1>1, <1>2, <1>3, <1>4, <1>5 DEF Next, Process

\* A call never returns another batch's actions, whatever came late, was cut short or
\* was printed in between: every failure drops the pipes with the child.
THEOREM AnswersAreOwn == Spec => OwnAnswer
<1>1. IInv /\ [Next]_vars =>
        [outcome = "pending" /\ outcome' = "answered" =>
           strayed \/ line = [kind |-> "answer", batch |-> call]]_vars
  <2> SUFFICES ASSUME IInv, Next, outcome = "pending", outcome' = "answered"
               PROVE  strayed \/ line = [kind |-> "answer", batch |-> call]
    OBVIOUS
  <2>1. Parse /\ Parses(line)
    BY OnlyParseAnswers DEF IInv
  <2> QED
    BY <2>1 DEF IInv, Paired, Parse, Parses, Noise, Answer
<1> QED
  BY Invariant, <1>1, PTL DEF Spec, OwnAnswer

\* A batch is written to a child at most twice, and never again after a timeout.
THEOREM HandedAtMostTwice == Spec => AtMostTwice
<1>1. IInv /\ IInv' /\ [Next]_vars => [KeepsToLimits]_vars
  <2> SUFFICES ASSUME IInv, IInv', Next, NEW b \in Batches
               PROVE  handed'[b] <= 2 /\ (b \in timedout => handed'[b] = handed[b])
    BY DEF KeepsToLimits
  <2>1. handed'[b] <= 2
    BY DEF IInv, Counted
  <2>2. handed' = handed \/ Write
    BY DEF Next, Process, Script, TransformBatch, ReadLine, ProcessError, Broken, Timeout, Parse,
           Respawn, Drop, ScriptReads, ScriptAnswers, ScriptPrints, ScriptExits
  <2>3. ASSUME Write, b \in timedout PROVE handed'[b] = handed[b]
    BY <2>3 DEF Write, IInv, TypeOK, Counted
  <2> QED
    BY <2>1, <2>2, <2>3
<1> QED
  BY Invariant, <1>1, PTL DEF Spec, AtMostTwice

----------------------------------------------------------------------------
(* Refinement: each step is a step of TransformCall or changes nothing of it. *)

LEMMA StepOfCall ==
  ASSUME IInv, [Next]_vars
  PROVE  [Abstract!Next]_<<call, outcome, ran, ~strayed>>
<1> USE DEF IInv, TypeOK
<1>u. UNCHANGED <<call, outcome, ran, strayed>> => UNCHANGED <<call, outcome, ran, ~strayed>>
  OBVIOUS
<1>1. CASE TransformBatch
  <2>1. outcome # "pending" /\ call' = call + 1 /\ outcome' \in {"pending", "failed"} /\ ran' = ran
    BY <1>1 DEF TransformBatch, Return
  <2>2. strayed' = strayed \/ strayed' = FALSE
    BY <1>1 DEF TransformBatch, Spawn, NoChild
  <2>3. Abstract!Begin
    BY <2>1, <2>2 DEF Abstract!Begin
  <2> QED
    BY <2>3 DEF Abstract!Next
<1>2. CASE Write \/ ReadLine \/ ProcessError \/ Timeout \/ ScriptReads \/ ScriptExits
  BY <1>2, <1>u DEF Write, ReadLine, ProcessError, Broken, Timeout, OnTimeout, ScriptReads, ScriptExits, callVars
<1>3. CASE Parse
  <2>1. CASE Parses(line)
    <3>1. outcome = "pending" /\ outcome' = "answered" /\ UNCHANGED <<call, ran, strayed>>
      BY <1>3, <2>1 DEF Parse, Return
    <3>2. call \in ran \/ strayed
      BY <1>3, <2>1 DEF Parse, Parses, Paired, Answered, Noise, Answer
    <3>3. Abstract!Answer
      BY <3>1, <3>2 DEF Abstract!Answer
    <3> QED
      BY <3>3 DEF Abstract!Next
  <2>2. CASE ~Parses(line)
    BY <1>3, <2>2, <1>u DEF Parse, OnUnparsable
  <2> QED
    BY <2>1, <2>2
<1>4. CASE Respawn
  <2>1. outcome = "pending" /\ strayed' = FALSE /\ UNCHANGED <<call, ran>>
        /\ (outcome' = outcome \/ outcome' = "failed")
    BY <1>4 DEF Respawn, Spawn, NoChild, Return
  <2>2. Abstract!Fail \/ Abstract!Replace
    BY <2>1 DEF Abstract!Fail, Abstract!Replace
  <2> QED
    BY <2>2 DEF Abstract!Next
<1>5. CASE Drop
  <2>1. strayed' = FALSE /\ UNCHANGED <<call, outcome, ran>>
    BY <1>5 DEF Drop, NoChild, callVars
  <2>2. Abstract!Replace
    BY <2>1 DEF Abstract!Replace
  <2> QED
    BY <2>2 DEF Abstract!Next
<1>6. CASE ScriptAnswers
  <2>1. ran' = ran \cup {working} /\ UNCHANGED <<call, outcome, strayed>>
    BY <1>6 DEF ScriptAnswers, callVars
  <2>2. working \in 1 .. call
    BY <1>6, LineFacts DEF ScriptAnswers, Answered
  <2>3. Abstract!Run
    BY <2>1, <2>2 DEF Abstract!Run
  <2> QED
    BY <2>3 DEF Abstract!Next
<1>7. CASE ScriptPrints
  <2>1. UNCHANGED <<call, outcome, ran>> /\ (strayed' = strayed \/ strayed' = TRUE)
    BY <1>7 DEF ScriptPrints, callVars
  <2>2. Abstract!Stray \/ UNCHANGED <<call, outcome, ran, ~strayed>>
    BY <2>1 DEF Abstract!Stray
  <2> QED
    BY <2>2 DEF Abstract!Next
<1>8. CASE UNCHANGED vars
  BY <1>8, <1>u DEF vars, callVars
<1> QED
  BY <1>1, <1>2, <1>3, <1>4, <1>5, <1>6, <1>7, <1>8 DEF Next, Process, Script

\* The pipes, the child's deaths and respawns amount to calls that come one at a time
\* and each end once, with an answer only for a batch the script has run.
THEOREM ImplementsTransformCall == Spec => ImplementsCall
<1>1. Init => Abstract!Init
  BY DEF Init, Abstract!Init
<1>2. IInv /\ [Next]_vars => [Abstract!Next]_<<call, outcome, ran, ~strayed>>
  BY StepOfCall
<1> QED
  BY Invariant, <1>1, <1>2, PTL DEF Spec, ImplementsCall, Abstract!Spec
=============================================================================
