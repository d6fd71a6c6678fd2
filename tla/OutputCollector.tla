---------------------------- MODULE OutputCollector ----------------------------
(***************************************************************************)
(* The store of output buffers (src/src/output_collector.py).  Each        *)
(* operator is one call, to be used as a conjunct of the action of the     *)
(* thread that makes it.  A byte is the position at which the script wrote *)
(* it on its stream, so that lost, repeated and reordered bytes show.      *)
(***************************************************************************)
EXTENDS Executions, Sequences

CONSTANTS
  MaxOutput,   \* max_output_size_bytes, stdout and stderr together
  WideLead     \* positions of the first byte of a two-byte UTF-8 character

ASSUME CollectorAssumption ==
  /\ MaxOutput \in Nat
  /\ WideLead \subseteq Nat \ {0}

VARIABLE buffer   \* _outputs: execution id -> OutputBuffer

Buffer == [stdout : Seq(Nat), stderr : Seq(Nat), complete : BOOLEAN,
           exitCode : ExitCode \cup {NoExit}, truncated : BOOLEAN]

EmptyBuffer == [stdout |-> <<>>, stderr |-> <<>>, complete |-> FALSE,
                exitCode |-> NoExit, truncated |-> FALSE]

CollectorTypeOK ==
  /\ DOMAIN buffer \subseteq Execution
  /\ buffer \in [DOMAIN buffer -> Buffer]

CollectorInit == buffer = [e \in {} |-> EmptyBuffer]

HasBuffer(e) == e \in DOMAIN buffer

Size(b) == Len(b.stdout) + Len(b.stderr)
-----------------------------------------------------------------------------
\* create_buffer(e): an existing buffer is kept.
CreateBuffer(e) ==
  buffer' = IF HasBuffer(e)
            THEN buffer
            ELSE [x \in DOMAIN buffer \cup {e} |->
                    IF x = e THEN EmptyBuffer ELSE buffer[x]]

\* A faulty variant of Captured: each stream has room for MaxOutput bytes.
CapturedPerStream(b, s, chunk) ==
  LET remaining == MaxOutput - (IF s = "stdout" THEN Len(b.stdout) ELSE Len(b.stderr))
      kept == SubSeq(chunk, 1, IF Len(chunk) > remaining THEN remaining
                                                         ELSE Len(chunk))
  IN  [b EXCEPT !.stdout = IF s = "stdout" THEN @ \o kept ELSE @,
                !.stderr = IF s = "stderr" THEN @ \o kept ELSE @,
                !.truncated = Len(chunk) > remaining]

\* The buffer after its lock-protected append of a chunk to stream s.
Captured(b, s, chunk) ==
  LET remaining == MaxOutput - Size(b)
      kept == SubSeq(chunk, 1, IF Len(chunk) > remaining THEN remaining
                                                         ELSE Len(chunk))
  IN  IF b.truncated \/ chunk = <<>> THEN b
      ELSE IF remaining <= 0 THEN [b EXCEPT !.truncated = TRUE]
      ELSE [b EXCEPT !.stdout = IF s = "stdout" THEN @ \o kept ELSE @,
                     !.stderr = IF s = "stderr" THEN @ \o kept ELSE @,
                     !.truncated = Len(chunk) > remaining]

\* capture_output(e, s, chunk) on a buffer that exists.
CaptureOutput(e, s, chunk) ==
  buffer' = [buffer EXCEPT ![e] = Captured(@, s, chunk)]

\* A faulty variant of MarkBufferComplete: the exit code is left out.
MarkBufferCompleteOnly(e, x) == buffer' = [buffer EXCEPT ![e].complete = TRUE]

\* mark_complete(e, x) on a buffer that exists: both fields under one lock.
MarkBufferComplete(e, x) ==
  buffer' = [buffer EXCEPT ![e].complete = TRUE, ![e].exitCode = x]

\* bytes.decode("utf-8", errors="replace"): half a character becomes U+FFFD.
Replacement == 0

Decode(bytes) ==
  [k \in 1..Len(bytes) |->
     IF /\ bytes[k] \in WideLead =>
             k < Len(bytes) /\ bytes[k + 1] = bytes[k] + 1
        /\ bytes[k] - 1 \in WideLead =>
             k > 1 /\ bytes[k - 1] = bytes[k] - 1
     THEN bytes[k] ELSE Replacement]

\* A faulty variant of From: one byte is skipped.
FromNext(bytes, offset) == SubSeq(bytes, offset + 2, Len(bytes))

From(bytes, offset) == SubSeq(bytes, offset + 1, Len(bytes))

\* A faulty variant of GetOutput: offsets relative to the slice returned.
GetOutputRelative(e, offset) ==
  LET b == buffer[e]
  IN  [stdout |-> Decode(From(b.stdout, offset)),
       stderr |-> Decode(From(b.stderr, offset)),
       stdoutOffset |-> Len(From(b.stdout, offset)),
       stderrOffset |-> Len(From(b.stderr, offset)),
       complete |-> b.complete, exitCode |-> b.exitCode]

\* get_output(e, offset): one offset slices both streams; the offsets
\* returned are the full lengths.
GetOutput(e, offset) ==
  LET b == buffer[e]
  IN  [stdout |-> Decode(From(b.stdout, offset)),
       stderr |-> Decode(From(b.stderr, offset)),
       stdoutOffset |-> Len(b.stdout), stderrOffset |-> Len(b.stderr),
       complete |-> b.complete, exitCode |-> b.exitCode]

\* remove_output for every identifier of S.
RemoveOutputs(S) == buffer' = [e \in DOMAIN buffer \ S |-> buffer[e]]
-----------------------------------------------------------------------------
(***************************************************************************)
(* The bytes held for one execution, both streams together, never exceed   *)
(* max_output_size_bytes, whatever the interleaving of the two log-stream  *)
(* threads: each computes the remaining room inside the buffer lock.       *)
(***************************************************************************)
OutputBound == \A e \in DOMAIN buffer : Size(buffer[e]) <= MaxOutput
=============================================================================
