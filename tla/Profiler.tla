------------------------------ MODULE Profiler ------------------------------
(***************************************************************************)
(* The diagnostic timings of one Gpu: the frames its owner encodes, the    *)
(* optional StageProfiler that measures each dispatch of a frame, and the  *)
(* report read afterwards.  In counters mode the GPU writes two timestamps *)
(* per dispatch and resolves them when the frame's command runs; in        *)
(* commands mode each dispatch is a command of its own, waited for while   *)
(* it is encoded.  Any step may fail, and the frame is then dropped where  *)
(* it stands; what the profiler holds must not be reported as a            *)
(* measurement of it.                                                      *)
(*                                                                         *)
(* A kernel stands for a kernel name with its parameters.  A duration is a *)
(* number of ticks, 0 for timestamps that are missing or invalid.  ran,    *)
(* frame and report are history: what the GPU really executed, the frame   *)
(* begun last, and the last successful report on it.                       *)
(***************************************************************************)
EXTENDS Integers, Sequences, FiniteSets, FiniteSetsExt

CONSTANTS Kernels,        \* kernel names with their parameters
          MaxDispatches,  \* half of MAX_SAMPLES
          MaxTicks,       \* bound on a dispatch's duration
          MaxTime         \* bound on the clock

ASSUME ProfilerAssumption ==
  MaxDispatches \in Nat \ {0} /\ MaxTicks \in Nat /\ MaxTime \in Nat

VARIABLES
  mode,              \* the profiler: "off", "counters" or "commands"
  pc,                \* "idle", "encoding" or "resolved": where the frame is
  entries,           \* dispatches of the frame, in order
  dispatch_seconds,  \* their durations, in commands mode
  timing_error,      \* some dispatch of the frame has no duration
  aborted,
  resolved_samples,  \* -1 stands for None
  resolved_command,  \* status of the command resolved last
  start_pair,        \* clock when the first encoder was made; 0 is None
  calibration,       \* clock window of the reports; NoWindow is None
  results,           \* durations in the buffer the GPU resolves into
  frame_timing,      \* a whole-frame timing is available
  now,               \* the clocks
  ran, frame, report

vars == <<mode, pc, entries, dispatch_seconds, timing_error, aborted,
          resolved_samples, resolved_command, start_pair, calibration,
          results, frame_timing, now, ran, frame, report>>

profile == <<entries, dispatch_seconds, timing_error, aborted,
             resolved_samples, start_pair, calibration>>

Missing  == 0
Ticks    == Missing..MaxTicks
NoWindow == [start |-> 0, end |-> 0]
NoReport == [rows |-> <<>>, window |-> NoWindow, ok |-> FALSE]

\* A profiler that has not seen a frame.
Fresh ==
  /\ entries' = <<>> /\ dispatch_seconds' = <<>>
  /\ timing_error' = FALSE /\ aborted' = FALSE
  /\ resolved_samples' = -1
  /\ start_pair' = 0 /\ calibration' = NoWindow

Init ==
  /\ mode = "off" /\ pc = "idle"
  /\ entries = <<>> /\ dispatch_seconds = <<>>
  /\ timing_error = FALSE /\ aborted = FALSE
  /\ resolved_samples = -1 /\ resolved_command = "none"
  /\ start_pair = 0 /\ calibration = NoWindow
  /\ results = <<>>
  /\ frame_timing = FALSE
  /\ now = 1
  /\ ran = <<>> /\ frame = [began |-> 0, status |-> "none"]
  /\ report = NoReport

----------------------------------------------------------------------------
\* enable_profiling, enable_command_profiling and disable_profiling put a new
\* profiler, or none, in place of the old one.
SetProfiling(m) ==
  /\ pc = "idle"
  /\ mode' = m
  /\ Fresh
  /\ resolved_command' = "none"
  /\ results' = <<>>
  /\ report' = NoReport
  /\ UNCHANGED <<pc, frame_timing, now, ran, frame>>

\* (Mutated form: the abort of an earlier frame is not cleared.)
ResetKeepAborted ==
  /\ entries' = <<>> /\ dispatch_seconds' = <<>>
  /\ timing_error' = FALSE /\ UNCHANGED aborted
  /\ resolved_samples' = -1
  /\ start_pair' = 0 /\ calibration' = NoWindow

\* The profiler keeps resolved_command: the next encoder looks at its status.
ResetProfile == Fresh

\* (Mutated form: the timing of the previous frame stays.)
BeginKeepTiming == UNCHANGED frame_timing

\* Gpu::begin forgets the previous frame's timing.
BeginTiming == frame_timing' = FALSE

\* begin, then begin_encoding.
Begin ==
  /\ pc = "idle"
  /\ pc' = "encoding"
  /\ BeginTiming
  /\ IF mode = "off" THEN UNCHANGED profile ELSE ResetProfile
  /\ ran' = <<>>
  /\ frame' = [began |-> now, status |-> "running"]
  /\ report' = NoReport
  /\ UNCHANGED <<mode, resolved_command, results, now>>

\* An error propagates: the frame is dropped, nothing of it is submitted.
DropFrame ==
  /\ pc' = "idle"
  /\ frame' = [frame EXCEPT !.status = "failed"]
  /\ UNCHANGED <<mode, resolved_samples, resolved_command, calibration,
                 results, frame_timing, now, report>>

\* The ensure! of encoder().
EncoderReady ==
  /\ ~aborted
  /\ resolved_samples = -1
  /\ resolved_command \in {"none", "completed", "error"}
  /\ Len(entries) < MaxDispatches
  /\ mode = "commands" => Len(entries) = Len(dispatch_seconds)

\* encoder() refused: the frame fails and aborted is left as it was.
EncodeRefused ==
  /\ pc = "encoding" /\ mode # "off"
  /\ ~EncoderReady
  /\ DropFrame
  /\ UNCHANGED <<entries, dispatch_seconds, timing_error, aborted, start_pair, ran>>

\* Counters sample the clocks at the first encoder of a frame.
StartPair ==
  IF mode = "counters" /\ start_pair = 0 THEN now ELSE start_pair

\* (Mutated form: a dispatch without a duration counts as instantaneous.)
NoDurationIgnored(t) == timing_error

\* finish_dispatch notes that a dispatch has no duration.
NoDuration(t) == timing_error \/ t = Missing

\* A dispatch encoded and, in commands mode, executed in t ticks.
Encode(k, t) ==
  /\ pc = "encoding"
  /\ IF mode = "off"
       THEN UNCHANGED <<entries, dispatch_seconds, timing_error, start_pair, ran>>
       ELSE /\ EncoderReady
            /\ entries' = Append(entries, k)
            /\ start_pair' = StartPair
            /\ IF mode = "commands"
                 THEN /\ dispatch_seconds' = Append(dispatch_seconds, t)
                      /\ timing_error' = NoDuration(t)
                      /\ ran' = Append(ran, [kernel |-> k, ticks |-> t])
                 ELSE UNCHANGED <<dispatch_seconds, timing_error, ran>>
  /\ UNCHANGED <<mode, pc, aborted, resolved_samples, resolved_command,
                 calibration, results, frame_timing, now, frame, report>>

\* The dispatch's buffers or parameters are rejected (abort_dispatch), or its
\* own command fails (finish_dispatch).
EncodeFailed(k) ==
  /\ pc = "encoding"
  /\ IF mode = "off"
       THEN UNCHANGED <<entries, start_pair, aborted>>
       ELSE /\ EncoderReady
            /\ entries' = Append(entries, k)
            /\ start_pair' = StartPair
            /\ aborted' = TRUE
  /\ DropFrame
  /\ UNCHANGED <<dispatch_seconds, timing_error, ran>>

\* DispatchEncoder::end_encoding, and resolve when there is a profiler; on
\* the frames that come this far none of resolve's checks fails.
EndEncoding ==
  /\ pc = "encoding"
  /\ pc' = "resolved"
  /\ IF mode = "off"
       THEN UNCHANGED <<resolved_samples, resolved_command>>
       ELSE /\ ~aborted
            /\ resolved_samples = -1
            /\ resolved_samples' = 2 * Len(entries)
            /\ resolved_command' = "running"
  /\ UNCHANGED <<mode, entries, dispatch_seconds, timing_error, aborted,
                 start_pair, calibration, results, frame_timing, now, ran,
                 frame, report>>

Status(s) == IF mode = "off" THEN resolved_command ELSE s

\* finish: the frame's command completes.  In counters mode its dispatches
\* take the ticks ts and their timestamps are resolved.
Finish(ts) ==
  /\ pc = "resolved"
  /\ pc' = "idle"
  /\ resolved_command' = Status("completed")
  /\ IF mode = "counters"
       THEN /\ results' = ts
            /\ ran' = [i \in 1..Len(entries) |-> [kernel |-> entries[i], ticks |-> ts[i]]]
       ELSE UNCHANGED <<results, ran>>
  /\ frame_timing' \in BOOLEAN
  /\ frame' = [frame EXCEPT !.status = "completed"]
  /\ UNCHANGED <<mode, profile, now, report>>

\* finish: the command ends in an error; the buffer keeps what it held, or
\* holds timestamps of dispatches that ran.
FinishFailed(ts) ==
  /\ pc = "resolved"
  /\ pc' = "idle"
  /\ resolved_command' = Status("error")
  /\ results' \in IF mode = "counters" THEN {results, ts} ELSE {results}
  /\ frame' = [frame EXCEPT !.status = "failed"]
  /\ UNCHANGED <<mode, profile, frame_timing, now, ran, report>>

----------------------------------------------------------------------------
\* The measurements a report aggregates.
Measured == IF mode = "commands" THEN dispatch_seconds
                                 ELSE SubSeq(results, 1, Len(entries))

\* One row per kernel: how often it was dispatched and for how long in all.
Rows(es, ts) ==
  [k \in {es[i] : i \in 1..Len(es)} |->
     LET of == {i \in 1..Len(es) : es[i] = k}
     IN  [dispatches |-> Cardinality(of),
          ticks      |-> MapThenSumSet(LAMBDA i : ts[i], of)]]

\* (Mutated form: the status of the command is not looked at.)
ReportReadyEarly ==
  /\ mode # "off"
  /\ ~aborted
  /\ resolved_samples = 2 * Len(entries)

\* The checks of report() before it aggregates.
ReportReady ==
  /\ mode # "off"
  /\ ~aborted
  /\ resolved_samples = 2 * Len(entries)
  /\ resolved_command = "completed"

\* (Mutated form: every report samples the clocks.)
WindowNow == [start |-> start_pair, end |-> now]

\* The clock window of the report: sampled by the first report on the frame.
Window == IF calibration # NoWindow THEN calibration
                                    ELSE [start |-> start_pair, end |-> now]

\* Rows for an empty frame need no clocks; otherwise in counters mode the
\* window must have a positive span.  A duration that is missing is an error.
Report ==
  /\ pc = "idle"
  /\ ReportReady
  /\ IF entries = <<>> \/ mode = "commands"
       THEN /\ ~timing_error
            /\ report' = [rows |-> Rows(entries, Measured), window |-> NoWindow, ok |-> TRUE]
            /\ UNCHANGED calibration
       ELSE /\ Window.end > Window.start
            /\ calibration' = Window
            /\ report' = IF \A i \in 1..Len(entries) : Measured[i] # Missing
                           THEN [rows |-> Rows(entries, Measured), window |-> Window, ok |-> TRUE]
                           ELSE report
  /\ UNCHANGED <<mode, pc, entries, dispatch_seconds, timing_error, aborted,
                 resolved_samples, resolved_command, start_pair, results,
                 frame_timing, now, ran, frame>>

Tick ==
  /\ now < MaxTime
  /\ now' = now + 1
  /\ UNCHANGED <<mode, pc, profile, resolved_command, results, frame_timing,
                 ran, frame, report>>

Next ==
  \/ \E m \in {"off", "counters", "commands"} : SetProfiling(m)
  \/ Begin
  \/ EncodeRefused
  \/ \E k \in Kernels : EncodeFailed(k) \/ \E t \in Ticks : Encode(k, t)
  \/ EndEncoding
  \/ \E ts \in [1..Len(entries) -> Ticks] : Finish(ts) \/ FinishFailed(ts)
  \/ Report
  \/ Tick

Spec == Init /\ [][Next]_vars

----------------------------------------------------------------------------

\* What the Gpu tells of a frame describes the frame begun last and nothing
\* else.  A whole-frame timing is there only if that frame completed.  When a
\* report succeeds, the frame completed, every dispatch the GPU ran is counted once, each
\* with a duration it really had, and in counters mode the clocks were
\* sampled after the frame began.  A dropped, aborted or failed frame, or
\* one with a missing duration, is never reported.
ReportDescribesFrame ==
  /\ frame_timing => frame.status = "completed"
  /\ report.ok =>
       /\ frame.status = "completed"
       /\ \A i \in 1..Len(ran) : ran[i].ticks # Missing
       /\ report.rows = Rows([i \in 1..Len(ran) |-> ran[i].kernel],
                             [i \in 1..Len(ran) |-> ran[i].ticks])
       /\ report.window # NoWindow => report.window.start >= frame.began

\* Once a report has been read, no later report on the same frame reads
\* otherwise: the clocks it is converted by are sampled once.
ReportsAgree ==
  [][report.ok /\ report'.ok => report' = report]_vars

\* Whatever became of the frame before, an aborted, dropped or failed one
\* included, the first dispatch of the next is accepted.
NextFrameAccepted ==
  [][pc = "idle" /\ pc' = "encoding" /\ mode # "off" => EncoderReady']_vars
=============================================================================
