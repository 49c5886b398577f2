-------------------------- MODULE TransformProcess --------------------------
(***************************************************************************)
(* JsTransformer: each batch is one line on the stdin of a child process   *)
(* that runs the user's transform.ts, its actions one line on the child's  *)
(* stdout.  Nothing in a line names the batch it answers: the pairing      *)
(* rests on the pipes being empty when a batch is written, so the child is *)
(* killed and respawned after every failure.                               *)
(*                                                                         *)
(* A batch is the number of its transform_batch call.  The script is       *)
(* external: it may answer, answer late or never, exit at any point, and   *)
(* print lines of its own (console.log), bounded by MaxStrays.             *)
(***************************************************************************)
EXTENDS Integers, Sequences

CONSTANTS
  MaxCalls,    \* bound: transform_batch calls
  MaxStrays    \* bound: lines the script prints on its own

ASSUME BoundsAssumption == MaxCalls \in Nat /\ MaxStrays \in Nat

VARIABLES
  child,     \* self.process: "none", or a child that is "live" or has "exited"
  stdin,     \* batches written and not yet read by the script
  working,   \* the batch the script works on, NoBatch if none
  stdout,    \* lines written by the script and not yet read
  call,      \* the batch of the current or last call
  attempt,   \* 1, or 2 after the respawn for a retry
  stage,     \* where transform_batch is
  after,     \* what follows a respawn: "retry" or "fail"
  line,      \* the line read from stdout
  outcome,   \* the result of the last call: "answered", "failed", or "pending"
  \* history
  handed,    \* handed[b]: times batch b was written to a child
  timedout,  \* batches that had an attempt time out
  ran,       \* batches some child has run to the end
  strayed,   \* the current child printed a line that parses as a list of actions
  strays

callVars == <<call, attempt, stage, after, line, outcome>>
pipeVars == <<stdin, working, stdout>>
vars == <<child, pipeVars, callVars, handed, timedout, ran, strayed, strays>>

NoBatch == 0
Batches == 1 .. MaxCalls

\* What a line of stdout is: the answer to a batch, another list of actions,
\* or something parse_actions rejects (text, half a line before an exit).
Answers == [kind : {"answer"}, batch : Batches]
Lines   == Answers \cup [kind : {"actions", "noise"}, batch : {NoBatch}]
NoLine  == [kind |-> "none", batch |-> NoBatch]
Parses(l) == l.kind \in {"answer", "actions"}

Init ==
  /\ child = "none" /\ stdin = <<>> /\ working = NoBatch /\ stdout = <<>>
  /\ call = 0 /\ attempt = 1 /\ stage = "idle" /\ after = "fail" /\ line = NoLine
  /\ outcome = "failed"
  /\ handed = [b \in Batches |-> 0] /\ timedout = {} /\ ran = {}
  /\ strayed = FALSE /\ strays = 0

\* spawn_child: a new child has new pipes; whatever the old one still writes
\* goes to a pipe nobody reads.
Spawn ==
  /\ child' = "live" /\ stdin' = <<>> /\ working' = NoBatch /\ stdout' = <<>>
  /\ strayed' = FALSE

\* The old child was taken and killed and no other could be started.
NoChild ==
  /\ child' = "none" /\ stdin' = <<>> /\ working' = NoBatch /\ stdout' = <<>>
  /\ strayed' = FALSE

Return(result) == stage' = "idle" /\ outcome' = result

\* transform_batch, ensure_process: a child is started only if there is none;
\* one that has exited is noticed when it is written to.
TransformBatch ==
  /\ stage = "idle" /\ call < MaxCalls
  /\ call' = call + 1 /\ attempt' = 1 /\ line' = NoLine
  /\ \/ child # "none" /\ UNCHANGED <<child, pipeVars, strayed>>
        /\ stage' = "send" /\ outcome' = "pending"
     \/ child = "none" /\ Spawn /\ stage' = "send" /\ outcome' = "pending"
     \/ child = "none" /\ NoChild /\ Return("failed")
  /\ UNCHANGED <<after, handed, timedout, ran, strays>>

\* try_send: write the line and flush.
Write ==
  /\ stage = "send" /\ child = "live"
  /\ stdin' = Append(stdin, call) /\ handed' = [handed EXCEPT ![call] = @ + 1]
  /\ stage' = "read"
  /\ UNCHANGED <<child, working, stdout, call, attempt, after, line, outcome, timedout, ran,
                 strayed, strays>>

\* try_send: read_line.
ReadLine ==
  /\ stage = "read" /\ stdout # <<>>
  /\ line' = Head(stdout) /\ stdout' = Tail(stdout) /\ stage' = "parse"
  /\ UNCHANGED <<child, stdin, working, call, attempt, after, outcome, handed, timedout, ran,
                 strayed, strays>>

\* A write to a child that exited, or the end of its output, is a process error.
Broken == child = "exited" /\ (stage = "send" \/ (stage = "read" /\ stdout = <<>>))

\* Mutant: every process error is retried.
ErrorRetries ==
  /\ Broken
  /\ stage' = "respawn" /\ after' = "retry"
  /\ UNCHANGED <<child, pipeVars, call, attempt, line, outcome, handed, timedout, ran, strayed,
                 strays>>

\* send_batch_to_process: a process error (broken pipe, end of file) is
\* retried once, on a fresh child.
ProcessError ==
  /\ Broken
  /\ stage' = "respawn" /\ after' = IF attempt = 1 THEN "retry" ELSE "fail"
  /\ UNCHANGED <<child, pipeVars, call, attempt, line, outcome, handed, timedout, ran, strayed,
                 strays>>

\* Mutants: a timeout that keeps its child, whose late answer stays in the
\* pipe, and one that is retried like a process error.
TimeoutKeepsChild == Return("failed") /\ UNCHANGED after
\* tokio::time::timeout over the write and the read: a timeout is not retried.
OnTimeout == stage' = "respawn" /\ after' = "fail" /\ UNCHANGED outcome

Timeout ==
  /\ stage \in {"send", "read"} /\ OnTimeout /\ timedout' = timedout \cup {call}
  /\ UNCHANGED <<child, pipeVars, call, attempt, line, handed, ran, strayed, strays>>

\* Mutant: a bad line fails the call and leaves the rest of the pipe as it is.
UnparsableKeepsChild == Return("failed") /\ UNCHANGED after

\* transform_batch, parse_actions: a line that does not parse costs the child.
OnUnparsable == stage' = "respawn" /\ after' = "fail" /\ UNCHANGED outcome

Parse ==
  /\ stage = "parse"
  /\ IF Parses(line) THEN Return("answered") /\ UNCHANGED after ELSE OnUnparsable
  /\ UNCHANGED <<child, pipeVars, call, attempt, line, handed, timedout, ran, strayed, strays>>

\* Mutant: a retry goes on without a child.
\* respawn: kill, take, spawn; if no child can be started the call fails here.
Respawn ==
  /\ stage = "respawn"
  /\ \/ Spawn /\ IF after = "retry" THEN stage' = "send" /\ attempt' = 2 /\ UNCHANGED outcome
                                   ELSE Return("failed") /\ UNCHANGED attempt
     \/ NoChild /\ Return("failed") /\ UNCHANGED attempt
  /\ UNCHANGED <<call, after, line, handed, timedout, ran, strays>>

\* Drop: a run that ends with an error, or a finished backfill, kills its children.
Drop ==
  /\ stage = "idle" /\ child # "none" /\ NoChild
  /\ UNCHANGED <<callVars, handed, timedout, ran, strays>>

-----------------------------------------------------------------------------
(* The script. *)

ScriptReads ==
  /\ child = "live" /\ working = NoBatch /\ stdin # <<>>
  /\ working' = Head(stdin) /\ stdin' = Tail(stdin)
  /\ UNCHANGED <<child, stdout, callVars, handed, timedout, ran, strayed, strays>>

ScriptAnswers ==
  /\ child = "live" /\ working # NoBatch
  /\ stdout' = Append(stdout, [kind |-> "answer", batch |-> working])
  /\ ran' = ran \cup {working} /\ working' = NoBatch
  /\ UNCHANGED <<child, stdin, callVars, handed, timedout, strayed, strays>>

\* A console.log, or an answer that is not a list of actions.
ScriptPrints ==
  /\ child = "live" /\ strays < MaxStrays /\ strays' = strays + 1
  /\ \E kind \in {"actions", "noise"} :
       /\ stdout' = Append(stdout, [kind |-> kind, batch |-> NoBatch])
       /\ strayed' = (strayed \/ kind = "actions")
  /\ UNCHANGED <<child, stdin, working, callVars, handed, timedout, ran>>

\* It may die after half a line, which read_line still returns.
ScriptExits ==
  /\ child = "live" /\ child' = "exited" /\ stdin' = <<>> /\ working' = NoBatch
  /\ \/ UNCHANGED stdout
     \/ working # NoBatch /\ stdout' = Append(stdout, [kind |-> "noise", batch |-> NoBatch])
  /\ UNCHANGED <<callVars, handed, timedout, ran, strayed, strays>>

-----------------------------------------------------------------------------
Process == Write \/ ReadLine \/ ProcessError \/ Timeout \/ Parse \/ Respawn
Script  == ScriptReads \/ ScriptAnswers \/ ScriptPrints \/ ScriptExits
Next    == TransformBatch \/ Process \/ Drop \/ Script

Spec == Init /\ [][Next]_vars

\* The runtime polls the call and its timer; nothing is asked of the script.
FairSpec == Spec /\ WF_vars(Process)

-----------------------------------------------------------------------------
(* Properties. *)

\* Every variable keeps its type, and try_send finds a process: its expect
\* ("process should exist after ensure") cannot panic (js_transform.rs:350).
TypeOK ==
  /\ child \in {"none", "live", "exited"}
  /\ stdin \in Seq(Batches) /\ working \in Batches \cup {NoBatch} /\ stdout \in Seq(Lines)
  /\ call \in 0 .. MaxCalls /\ attempt \in {1, 2}
  /\ stage \in {"idle", "send", "read", "parse", "respawn"} /\ after \in {"retry", "fail"}
  /\ line \in Lines \cup {NoLine} /\ outcome \in {"answered", "failed", "pending"}
  /\ handed \in [Batches -> Nat] /\ timedout \subseteq Batches /\ ran \subseteq Batches
  /\ strayed \in BOOLEAN /\ strays \in 0 .. MaxStrays
  /\ stage = "idle" <=> outcome # "pending"
  /\ stage # "idle" => child # "none" /\ call \in Batches

\* transform_batch never returns the actions of another batch: not after a
\* timeout whose answer comes late, a crash half way through a line, or text
\* the script printed.  (Unless what it printed is itself a list of actions,
\* which nothing in the code tells from an answer.)
OwnAnswer ==
  [][outcome = "pending" /\ outcome' = "answered" =>
       strayed \/ line = [kind |-> "answer", batch |-> call]]_vars

KeepsToLimits ==
  \A b \in Batches : handed'[b] <= 2 /\ (b \in timedout => handed'[b] = handed[b])

\* A batch is handed to the script at most twice, and not again after a
\* timeout (send_batch_to_process: "timeouts are not retried").
AtMostTwice == [][KeepsToLimits]_vars

\* Whatever the script does, every call returns: to the loop a transform that
\* hangs, dies or cannot be started is an error, never a stop.
CallReturns == stage # "idle" ~> stage = "idle"

\* The pipes and respawns implement one call after the other.
Abstract == INSTANCE TransformCall WITH kept <- ~strayed
ImplementsCall == Abstract!Spec
=============================================================================
