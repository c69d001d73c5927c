--------------------------- MODULE ProfilerProofs ---------------------------
(***************************************************************************)
(* Proofs about the diagnostic timings, for frames of any length, any      *)
(* kernels and any clocks: what is reported describes the frame begun last *)
(* and no other, reports on one frame agree, and no frame is refused for   *)
(* what became of the one before it.                                       *)
(*                                                                         *)
(* The profiler does not know whether its frame ran; it knows two counts   *)
(* and a status.  The invariant says what these tell: once they let a      *)
(* report through, its entries and durations are those of the dispatches   *)
(* that the GPU executed in the last frame.                                *)
(***************************************************************************)
EXTENDS Profiler, SequenceTheorems, TLAPS

Dispatch == [kernel : Kernels, ticks : Ticks]

TypeOK ==
  /\ mode \in {"off", "counters", "commands"}
  /\ pc \in {"idle", "encoding", "resolved"}
  /\ entries \in Seq(Kernels)
  /\ dispatch_seconds \in Seq(Ticks)
  /\ timing_error \in BOOLEAN
  /\ aborted \in BOOLEAN
  /\ resolved_samples \in Nat \cup {-1}
  /\ resolved_command \in {"none", "running", "completed", "error"}
  /\ start_pair \in Nat
  /\ calibration \in [start : Nat, end : Nat]
  /\ results \in Seq(Ticks)
  /\ frame_timing \in BOOLEAN
  /\ now \in Nat \ {0}
  /\ ran \in Seq(Dispatch)
  /\ frame \in [began : Nat, status : {"none", "running", "completed", "failed"}]

\* What the profiler's fields say of where its frame is.
ProfilerPlace ==
  /\ mode = "off" => entries = <<>> /\ resolved_samples = -1 /\ calibration = NoWindow
  /\ resolved_command = "running" <=> pc = "resolved" /\ mode # "off"
  /\ pc # "idle" => ~frame_timing /\ report = NoReport
  /\ pc = "encoding" => resolved_samples = -1
  /\ pc # "idle" /\ mode # "off" => ~aborted
  /\ frame_timing => frame.status = "completed"

\* The clocks were sampled in this frame.
ClocksOfFrame ==
  /\ frame.began <= now
  /\ mode = "counters" =>
       /\ start_pair # 0 => start_pair >= frame.began
       /\ entries # <<>> => start_pair # 0
  /\ calibration # NoWindow => calibration.start >= frame.began

\* The dispatches that the GPU ran are the entries, and their durations ts.
RanAs(ts) ==
  /\ Len(ran) = Len(entries) /\ Len(ts) = Len(entries)
  /\ \A i \in 1..Len(entries) : ran[i].kernel = entries[i] /\ ran[i].ticks = ts[i]

\* In commands mode each dispatch has run by the time it is an entry.
CommandsRan ==
  mode = "commands" /\ (pc # "idle" \/ resolved_samples # -1) =>
    /\ RanAs(dispatch_seconds)
    /\ ~timing_error => \A i \in 1..Len(entries) : dispatch_seconds[i] # Missing

\* A resolved command that completed is the last frame's.
FrameRan ==
  mode # "off" /\ pc = "idle" /\ resolved_samples # -1 /\ resolved_command = "completed" =>
    /\ frame.status = "completed"
    /\ mode = "counters" => RanAs(results)

\* Every report on a frame is this one.
ReportWindow == IF entries = <<>> \/ mode = "commands" THEN NoWindow ELSE calibration
TheReport == [rows |-> Rows(entries, Measured), window |-> ReportWindow, ok |-> TRUE]

ReportOK ==
  report # NoReport =>
    /\ report = TheReport
    /\ ReportReady
    /\ \A i \in 1..Len(entries) : Measured[i] # Missing
    /\ entries # <<>> /\ mode = "counters" => calibration # NoWindow

IInv ==
  /\ TypeOK
  /\ ProfilerPlace
  /\ ClocksOfFrame
  /\ CommandsRan
  /\ FrameRan
  /\ ReportOK

----------------------------------------------------------------------------
\* Sequences.

LEMMA FunctionIsSeq ==
  ASSUME NEW S, NEW n \in Nat, NEW f \in [1..n -> S]
  PROVE  f \in Seq(S) /\ Len(f) = n
<1>1. f \in Seq(S)
  BY SeqDef
<1>2. 1..Len(f) = 1..n /\ Len(f) \in Nat
  BY <1>1, LenProperties
<1> QED
  BY <1>1, <1>2

LEMMA TicksType ==
  /\ Missing \in Ticks
  /\ \A n \in Nat : \A ts \in [1..n -> Ticks] : ts \in Seq(Ticks) /\ Len(ts) = n
BY FunctionIsSeq, ProfilerAssumption DEF Ticks, Missing

\* What a report aggregates, in the two modes.
LEMMA MeasuredIs ==
  ASSUME TypeOK
  PROVE  /\ mode = "commands" => Measured = dispatch_seconds
         /\ mode = "counters" /\ Len(results) = Len(entries) => Measured = results
<1>1. results \in Seq(Ticks)
  BY DEF TypeOK
<1>2. SubSeq(results, 1, Len(results)) = results
  BY <1>1, SubSeqFull
<1> QED
  BY <1>2 DEF Measured

----------------------------------------------------------------------------
\* Types.

LEMMA TypesKept ==
  ASSUME TypeOK, [Next]_vars
  PROVE  TypeOK'
<1> USE ProfilerAssumption DEF profile
<1>0. /\ <<>> \in Seq(Kernels) /\ <<>> \in Seq(Ticks) /\ <<>> \in Seq(Dispatch)
      /\ Len(entries) \in Nat /\ now + 1 \in Nat \ {0}
  BY EmptySeq, LenProperties DEF TypeOK
<1>1. ASSUME NEW m \in {"off", "counters", "commands"}, SetProfiling(m) PROVE TypeOK'
  BY <1>0, <1>1 DEF TypeOK, SetProfiling, Fresh, NoWindow
<1>2. CASE Begin
  <2>0. ran' \in Seq(Dispatch) /\ frame' \in [began : Nat, status : {"none", "running", "completed", "failed"}]
    BY <1>0, <1>2 DEF TypeOK, Begin
  <2>1. CASE mode = "off"
    BY <1>2, <2>0, <2>1 DEF TypeOK, Begin, BeginTiming
  <2>2. CASE mode # "off"
    <3>1. Fresh
      BY <1>2, <2>2 DEF Begin, ResetProfile
    <3>3. /\ entries' \in Seq(Kernels) /\ dispatch_seconds' \in Seq(Ticks)
          /\ timing_error' \in BOOLEAN /\ aborted' \in BOOLEAN
          /\ resolved_samples' \in Nat \cup {-1} /\ start_pair' \in Nat
          /\ calibration' \in [start : Nat, end : Nat]
      BY <1>0, <3>1 DEF Fresh, NoWindow
    <3>2. /\ pc' \in {"idle", "encoding", "resolved"} /\ frame_timing' \in BOOLEAN
          /\ UNCHANGED <<mode, resolved_command, results, now>>
      BY <1>2 DEF Begin, BeginTiming
    <3> QED
      BY <2>0, <3>2, <3>3 DEF TypeOK
  <2> QED
    BY <2>1, <2>2
<1>3. CASE EncodeRefused
  BY <1>3 DEF TypeOK, EncodeRefused, DropFrame
<1>4. ASSUME NEW k \in Kernels, EncodeFailed(k) PROVE TypeOK'
  <2>1. Append(entries, k) \in Seq(Kernels)
    BY AppendProperties DEF TypeOK
  <2>2. entries' \in Seq(Kernels) /\ start_pair' \in Nat /\ aborted' \in BOOLEAN
    BY <1>4, <2>1 DEF EncodeFailed, TypeOK, StartPair
  <2> QED
    BY <1>4, <2>2 DEF TypeOK, EncodeFailed, DropFrame
<1>5. ASSUME NEW k \in Kernels, NEW t \in Ticks, Encode(k, t) PROVE TypeOK'
  <2> DEFINE d == [kernel |-> k, ticks |-> t]
  <2>1. d \in Dispatch
    BY DEF Dispatch
  <2>2. /\ Append(entries, k) \in Seq(Kernels) /\ Append(dispatch_seconds, t) \in Seq(Ticks)
        /\ Append(ran, d) \in Seq(Dispatch)
    BY <2>1, AppendProperties DEF TypeOK
  <2>3. /\ entries' \in Seq(Kernels) /\ start_pair' \in Nat /\ timing_error' \in BOOLEAN
        /\ dispatch_seconds' \in Seq(Ticks) /\ ran' \in Seq(Dispatch)
    BY <1>5, <2>2 DEF Encode, TypeOK, StartPair, NoDuration
  <2> QED
    BY <1>5, <2>3 DEF TypeOK, Encode
<1>6. CASE EndEncoding
  BY <1>0, <1>6 DEF TypeOK, EndEncoding
<1>7. ASSUME NEW ts \in [1..Len(entries) -> Ticks], Finish(ts) PROVE TypeOK'
  <2> DEFINE f == [i \in 1..Len(entries) |-> [kernel |-> entries[i], ticks |-> ts[i]]]
  <2>1. f \in [1..Len(entries) -> Dispatch]
    <3>1. \A i \in 1..Len(entries) : entries[i] \in Kernels
      BY ElementOfSeq DEF TypeOK
    <3> QED
      BY <3>1 DEF Dispatch
  <2> HIDE DEF f
  <2>2. f \in Seq(Dispatch) /\ ts \in Seq(Ticks)
    BY <1>0, <2>1, FunctionIsSeq
  <2>3. results' \in Seq(Ticks) /\ ran' \in Seq(Dispatch)
    BY <1>7, <2>2 DEF Finish, TypeOK, f
  <2> QED
    BY <1>7, <2>3 DEF TypeOK, Finish, Status
<1>8. ASSUME NEW ts \in [1..Len(entries) -> Ticks], FinishFailed(ts) PROVE TypeOK'
  <2>1. results' \in Seq(Ticks)
    BY <1>0, <1>8, FunctionIsSeq DEF FinishFailed, TypeOK
  <2> QED
    BY <1>8, <2>1 DEF TypeOK, FinishFailed, Status
<1>9. CASE Report
  BY <1>9 DEF TypeOK, Report, Window
<1>10. CASE Tick
  BY <1>0, <1>10 DEF TypeOK, Tick
<1>11. CASE UNCHANGED vars
  BY <1>11 DEF TypeOK, vars
<1> QED
  BY <1>1, <1>2, <1>3, <1>4, <1>5, <1>6, <1>7, <1>8, <1>9, <1>10, <1>11 DEF Next

----------------------------------------------------------------------------
\* The parts of the invariant.

LEMMA PlaceKept ==
  ASSUME TypeOK, ProfilerPlace, [Next]_vars
  PROVE  ProfilerPlace'
<1> USE DEF profile, NoWindow
<1>0. pc \in {"idle", "encoding", "resolved"} /\ mode \in {"off", "counters", "commands"}
  BY DEF TypeOK
<1>1. ASSUME NEW m \in {"off", "counters", "commands"}, SetProfiling(m) PROVE ProfilerPlace'
  BY <1>1 DEF ProfilerPlace, SetProfiling, Fresh
<1>2. CASE Begin
  <2>1. CASE mode = "off"
    BY <1>2, <2>1 DEF ProfilerPlace, Begin, BeginTiming
  <2>2. CASE mode # "off"
    BY <1>2, <2>2 DEF ProfilerPlace, Begin, BeginTiming, ResetProfile, Fresh
  <2> QED
    BY <2>1, <2>2
<1>3. CASE EncodeRefused
  BY <1>3 DEF ProfilerPlace, EncodeRefused, DropFrame
<1>4. ASSUME NEW k \in Kernels, EncodeFailed(k) PROVE ProfilerPlace'
  BY <1>4 DEF ProfilerPlace, EncodeFailed, DropFrame
<1>5. ASSUME NEW k \in Kernels, NEW t \in Ticks, Encode(k, t) PROVE ProfilerPlace'
  BY <1>5 DEF ProfilerPlace, Encode
<1>6. CASE EndEncoding
  BY <1>6 DEF ProfilerPlace, EndEncoding
<1>7. ASSUME NEW ts \in [1..Len(entries) -> Ticks], Finish(ts) PROVE ProfilerPlace'
  BY <1>7 DEF ProfilerPlace, Finish, Status, TypeOK
<1>8. ASSUME NEW ts \in [1..Len(entries) -> Ticks], FinishFailed(ts) PROVE ProfilerPlace'
  BY <1>8 DEF ProfilerPlace, FinishFailed, Status
<1>9. CASE Report
  BY <1>9 DEF ProfilerPlace, Report, ReportReady
<1>10. CASE Tick
  BY <1>10 DEF ProfilerPlace, Tick
<1>11. CASE UNCHANGED vars
  BY <1>11 DEF ProfilerPlace, vars
<1> QED
  BY <1>1, <1>2, <1>3, <1>4, <1>5, <1>6, <1>7, <1>8, <1>9, <1>10, <1>11 DEF Next

LEMMA StartSampled ==
  ASSUME TypeOK, ClocksOfFrame, mode = "counters"
  PROVE  StartPair # 0 /\ StartPair >= frame.began
BY DEF TypeOK, ClocksOfFrame, StartPair

LEMMA ClocksKept ==
  ASSUME TypeOK, ProfilerPlace, ClocksOfFrame, [Next]_vars
  PROVE  ClocksOfFrame'
<1> USE DEF profile
<1>0. /\ frame.began \in Nat /\ now \in Nat /\ start_pair \in Nat
  BY DEF TypeOK
<1>1. ASSUME NEW m \in {"off", "counters", "commands"}, SetProfiling(m) PROVE ClocksOfFrame'
  BY <1>1 DEF ClocksOfFrame, SetProfiling, Fresh
<1>2. CASE Begin
  <2>1. /\ frame'.began = now /\ now' = now /\ entries' = <<>> /\ calibration' = NoWindow
        /\ mode' = "counters" => start_pair' = 0
    BY <1>2 DEF Begin, ResetProfile, Fresh, ProfilerPlace
  <2> QED
    BY <1>0, <2>1 DEF ClocksOfFrame
<1>3. CASE EncodeRefused
  <2>1. frame'.began = frame.began
    BY <1>3 DEF EncodeRefused, DropFrame, TypeOK
  <2> QED
    BY <1>3, <2>1 DEF ClocksOfFrame, EncodeRefused, DropFrame
<1>4. ASSUME NEW k \in Kernels, EncodeFailed(k) PROVE ClocksOfFrame'
  <2>1. /\ frame'.began = frame.began /\ UNCHANGED <<mode, now, calibration>>
        /\ mode = "counters" => start_pair' = StartPair
    BY <1>4 DEF EncodeFailed, DropFrame, TypeOK
  <2>2. mode = "counters" => start_pair' # 0 /\ start_pair' >= frame.began
    BY <2>1, StartSampled
  <2> QED
    BY <2>1, <2>2 DEF ClocksOfFrame
<1>5. ASSUME NEW k \in Kernels, NEW t \in Ticks, Encode(k, t) PROVE ClocksOfFrame'
  <2>1. /\ frame' = frame /\ UNCHANGED <<mode, now, calibration>>
        /\ mode = "counters" => start_pair' = StartPair
    BY <1>5 DEF Encode
  <2>2. mode = "counters" => start_pair' # 0 /\ start_pair' >= frame.began
    BY <2>1, StartSampled
  <2> QED
    BY <2>1, <2>2 DEF ClocksOfFrame
<1>6. CASE EndEncoding
  BY <1>6 DEF ClocksOfFrame, EndEncoding
<1>7. ASSUME NEW ts \in [1..Len(entries) -> Ticks], Finish(ts) \/ FinishFailed(ts)
      PROVE  ClocksOfFrame'
  <2>1. frame'.began = frame.began
    BY <1>7 DEF Finish, FinishFailed, TypeOK
  <2> QED
    BY <1>7, <2>1 DEF ClocksOfFrame, Finish, FinishFailed
<1>8. CASE Report
  <2>1. CASE calibration' = calibration
    BY <1>8, <2>1 DEF ClocksOfFrame, Report
  <2>2. CASE calibration' = Window /\ entries # <<>> /\ mode = "counters"
    BY <1>8, <2>2 DEF ClocksOfFrame, Report, Window
  <2> QED
    BY <1>8, <2>1, <2>2 DEF Report, ReportReady, TypeOK
<1>9. CASE Tick
  BY <1>0, <1>9 DEF ClocksOfFrame, Tick
<1>10. CASE UNCHANGED vars
  BY <1>10 DEF ClocksOfFrame, vars
<1> QED
  BY <1>1, <1>2, <1>3, <1>4, <1>5, <1>6, <1>7, <1>8, <1>9, <1>10 DEF Next

LEMMA CommandsKept ==
  ASSUME TypeOK, ProfilerPlace, CommandsRan, [Next]_vars
  PROVE  CommandsRan'
<1> USE DEF profile
<1>0. Len(entries) \in Nat /\ Len(<<>>) = 0 /\ Len(ran) \in Nat
  BY EmptySeq, LenProperties DEF TypeOK
<1>1. ASSUME UNCHANGED <<mode, entries, dispatch_seconds, timing_error, ran>>,
             pc' # "idle" \/ resolved_samples' # -1 => pc # "idle" \/ resolved_samples # -1
      PROVE  CommandsRan'
  BY <1>1 DEF CommandsRan, RanAs
<1>2. ASSUME NEW m \in {"off", "counters", "commands"}, SetProfiling(m) PROVE CommandsRan'
  BY <1>2 DEF CommandsRan, SetProfiling, Fresh
<1>3. CASE Begin
  <2>1. mode' = "commands" => entries' = <<>> /\ dispatch_seconds' = <<>>
    BY <1>3 DEF Begin, ResetProfile, Fresh
  <2>2. ran' = <<>>
    BY <1>3 DEF Begin
  <2> QED
    BY <1>0, <2>1, <2>2 DEF CommandsRan, RanAs
<1>4. CASE EncodeRefused
  BY <1>1, <1>4 DEF EncodeRefused, DropFrame
<1>5. ASSUME NEW k \in Kernels, EncodeFailed(k) PROVE CommandsRan'
  BY <1>5 DEF CommandsRan, ProfilerPlace, EncodeFailed, DropFrame
<1>6. ASSUME NEW k \in Kernels, NEW t \in Ticks, Encode(k, t) PROVE CommandsRan'
  <2>1. CASE mode # "commands"
    BY <1>6, <2>1 DEF CommandsRan, Encode
  <2>2. CASE mode = "commands"
    <3> DEFINE d == [kernel |-> k, ticks |-> t]
               n == Len(entries)
    <3>1. /\ entries' = Append(entries, k) /\ dispatch_seconds' = Append(dispatch_seconds, t)
          /\ ran' = Append(ran, d) /\ (~timing_error' => ~timing_error /\ t # Missing)
      BY <1>6, <2>2 DEF Encode, NoDuration, TypeOK
    <3>2. /\ Len(ran) = n /\ Len(dispatch_seconds) = n
          /\ \A i \in 1..n : ran[i].kernel = entries[i] /\ ran[i].ticks = dispatch_seconds[i]
          /\ ~timing_error => \A i \in 1..n : dispatch_seconds[i] # Missing
      BY <1>6, <2>2 DEF CommandsRan, RanAs, Encode
    <3>3. d \in Dispatch
      BY DEF Dispatch
    <3>4. /\ Len(entries') = n + 1 /\ entries'[n + 1] = k
          /\ \A i \in 1..n : entries'[i] = entries[i]
      BY <3>1, AppendProperties DEF TypeOK
    <3>5. /\ Len(dispatch_seconds') = n + 1 /\ dispatch_seconds'[n + 1] = t
          /\ \A i \in 1..n : dispatch_seconds'[i] = dispatch_seconds[i]
      BY <3>1, <3>2, AppendProperties DEF TypeOK
    <3>6. /\ Len(ran') = n + 1 /\ ran'[n + 1] = d
          /\ \A i \in 1..n : ran'[i] = ran[i]
      <4> HIDE DEF d
      <4> QED
        BY <3>1, <3>2, <3>3, AppendProperties DEF TypeOK
    <3>7. n \in Nat
      BY <1>0
    <3> HIDE DEF n
    <3>8. ASSUME NEW i \in 1..(n + 1)
          PROVE  /\ ran'[i].kernel = entries'[i] /\ ran'[i].ticks = dispatch_seconds'[i]
                 /\ ~timing_error' => dispatch_seconds'[i] # Missing
      <4>1. CASE i \in 1..n
        BY <3>1, <3>2, <3>4, <3>5, <3>6, <4>1
      <4>2. CASE i = n + 1
        BY <3>1, <3>4, <3>5, <3>6, <4>2
      <4> QED
        BY <3>7, <4>1, <4>2
    <3> QED
      BY <3>4, <3>5, <3>6, <3>8 DEF CommandsRan, RanAs
  <2> QED
    BY <2>1, <2>2
<1>7. CASE EndEncoding
  BY <1>1, <1>7 DEF EndEncoding
<1>8. ASSUME NEW ts \in [1..Len(entries) -> Ticks], Finish(ts) PROVE CommandsRan'
  <2>1. CASE mode = "commands"
    BY <1>1, <1>8, <2>1 DEF Finish
  <2> QED
    BY <1>8, <2>1 DEF CommandsRan, Finish
<1>9. ASSUME NEW ts \in [1..Len(entries) -> Ticks], FinishFailed(ts) PROVE CommandsRan'
  BY <1>1, <1>9 DEF FinishFailed
<1>10. CASE Report
  BY <1>1, <1>10 DEF Report
<1>11. CASE Tick
  BY <1>1, <1>11 DEF Tick
<1>12. CASE UNCHANGED vars
  BY <1>1, <1>12 DEF vars
<1> QED
  BY <1>2, <1>3, <1>4, <1>5, <1>6, <1>7, <1>8, <1>9, <1>10, <1>11, <1>12 DEF Next


LEMMA FrameKept ==
  ASSUME TypeOK, ProfilerPlace, FrameRan, [Next]_vars
  PROVE  FrameRan'
<1> USE DEF profile
<1>0. Len(entries) \in Nat
  BY LenProperties DEF TypeOK
<1>1. ASSUME UNCHANGED <<mode, pc, entries, resolved_samples, resolved_command, results, ran, frame>>
      PROVE  FrameRan'
  BY <1>1 DEF FrameRan, RanAs
<1>2. ASSUME NEW m \in {"off", "counters", "commands"}, SetProfiling(m) PROVE FrameRan'
  BY <1>2 DEF FrameRan, SetProfiling, Fresh
<1>3. ASSUME pc' # "idle" \/ resolved_samples' = -1 PROVE FrameRan'
  BY <1>3 DEF FrameRan
<1>4. CASE Begin \/ EndEncoding
  BY <1>3, <1>4 DEF Begin, EndEncoding
<1>5. CASE EncodeRefused
  BY <1>3, <1>5 DEF EncodeRefused, DropFrame, ProfilerPlace
<1>6. ASSUME NEW k \in Kernels, EncodeFailed(k) PROVE FrameRan'
  BY <1>3, <1>6 DEF EncodeFailed, DropFrame, ProfilerPlace
<1>7. ASSUME NEW k \in Kernels, NEW t \in Ticks, Encode(k, t) PROVE FrameRan'
  BY <1>3, <1>7 DEF Encode
<1>8. ASSUME NEW ts \in [1..Len(entries) -> Ticks], Finish(ts) PROVE FrameRan'
  <2>1. frame'.status = "completed" /\ entries' = entries /\ mode' = mode
    BY <1>8 DEF Finish, TypeOK
  <2>2. ASSUME mode = "counters" PROVE RanAs(results)'
    <3> DEFINE f == [i \in 1..Len(entries) |-> [kernel |-> entries[i], ticks |-> ts[i]]]
    <3>1. results' = ts /\ ran' = f
      BY <1>8, <2>2 DEF Finish
    <3>2. f \in [1..Len(entries) -> Dispatch]
      <4>1. \A i \in 1..Len(entries) : entries[i] \in Kernels
        BY ElementOfSeq DEF TypeOK
      <4> QED
        BY <4>1 DEF Dispatch
    <3>3. \A i \in 1..Len(entries) : f[i].kernel = entries[i] /\ f[i].ticks = ts[i]
      OBVIOUS
    <3> HIDE DEF f
    <3>4. Len(ts) = Len(entries) /\ Len(f) = Len(entries)
      BY <1>0, <3>2, FunctionIsSeq
    <3> QED
      BY <2>1, <3>1, <3>3, <3>4 DEF RanAs
  <2> QED
    BY <2>1, <2>2 DEF FrameRan
<1>9. ASSUME NEW ts \in [1..Len(entries) -> Ticks], FinishFailed(ts) PROVE FrameRan'
  <2>1. mode # "off" => resolved_command' = "error"
    BY <1>9 DEF FinishFailed, Status
  <2>2. mode' = mode
    BY <1>9 DEF FinishFailed
  <2> QED
    BY <2>1, <2>2 DEF FrameRan
<1>10. CASE Report
  BY <1>1, <1>10 DEF Report
<1>11. CASE Tick
  BY <1>1, <1>11 DEF Tick
<1>12. CASE UNCHANGED vars
  BY <1>1, <1>12 DEF vars
<1> QED
  BY <1>2, <1>4, <1>5, <1>6, <1>7, <1>8, <1>9, <1>10, <1>11, <1>12 DEF Next

\* A report that could be read again reads the same.
LEMMA ReportStep ==
  ASSUME TypeOK, ProfilerPlace, CommandsRan, ReportOK, Report
  PROVE  ReportOK' /\ (report = NoReport \/ report' = NoReport \/ report' = report)
<1>0. /\ UNCHANGED <<mode, entries, dispatch_seconds, aborted, resolved_samples,
                     resolved_command, results>>
      /\ ReportReady /\ mode \in {"counters", "commands"}
  BY DEF Report, ReportReady, TypeOK
<1>1. Measured' = Measured /\ ReportReady'
  BY <1>0 DEF Measured, ReportReady
<1>2. Len(<<>>) = 0
  BY EmptySeq
<1>3. CASE entries = <<>> \/ mode = "commands"
  <2>1. ~timing_error /\ calibration' = calibration
        /\ report' = [rows |-> Rows(entries, Measured), window |-> NoWindow, ok |-> TRUE]
    BY <1>3 DEF Report
  <2>2. report' = TheReport' /\ (report # NoReport => report' = report)
    BY <1>0, <1>1, <1>3, <2>1 DEF TheReport, ReportWindow, ReportOK
  <2>3. \A i \in 1..Len(entries) : Measured[i] # Missing
    <3>1. CASE entries = <<>>
      BY <1>2, <3>1
    <3>2. CASE mode = "commands"
      BY <1>0, <2>1, <3>2, MeasuredIs DEF CommandsRan, ReportReady, ProfilerPlace, TypeOK
    <3> QED
      BY <1>3, <3>1, <3>2
  <2>4. entries' # <<>> /\ mode' = "counters" => FALSE
    BY <1>0, <1>3
  <2> QED
    BY <1>0, <1>1, <2>2, <2>3, <2>4 DEF ReportOK
<1>4. CASE entries # <<>> /\ mode = "counters"
  <2>1. /\ Window.end > Window.start /\ calibration' = Window
        /\ report' = IF \A i \in 1..Len(entries) : Measured[i] # Missing
                       THEN [rows |-> Rows(entries, Measured), window |-> Window, ok |-> TRUE]
                       ELSE report
    BY <1>4 DEF Report
  <2>2. Window # NoWindow
    <3>1. Window.start \in Nat /\ Window.end \in Nat
      BY DEF Window, TypeOK
    <3> QED
      BY <2>1, <3>1 DEF NoWindow
  <2>3. CASE \A i \in 1..Len(entries) : Measured[i] # Missing
    <3>1. report' = [rows |-> Rows(entries, Measured), window |-> Window, ok |-> TRUE]
      BY <2>1, <2>3
    <3>2. report' = TheReport'
      BY <1>0, <1>1, <1>4, <2>1, <3>1 DEF TheReport, ReportWindow
    <3>3. report # NoReport => report' = report
      BY <1>4, <3>1 DEF ReportOK, TheReport, ReportWindow, Window
    <3> QED
      BY <1>0, <1>1, <2>1, <2>2, <2>3, <3>2, <3>3 DEF ReportOK
  <2>4. CASE ~\A i \in 1..Len(entries) : Measured[i] # Missing
    <3>1. report = NoReport /\ report' = report
      BY <2>1, <2>4 DEF ReportOK
    <3> QED
      BY <3>1 DEF ReportOK
  <2> QED
    BY <2>3, <2>4
<1> QED
  BY <1>0, <1>3, <1>4

LEMMA ReportKept ==
  ASSUME TypeOK, ProfilerPlace, CommandsRan, ReportOK, [Next]_vars
  PROVE  /\ ReportOK'
         /\ report = NoReport \/ report' = NoReport \/ report' = report
<1> USE DEF profile
<1>1. ASSUME UNCHANGED <<mode, entries, dispatch_seconds, aborted, resolved_samples,
                         resolved_command, calibration, results, report>>
      PROVE  ReportOK' /\ report' = report
  BY <1>1 DEF ReportOK, TheReport, ReportWindow, ReportReady, Measured
<1>2. ASSUME report' = NoReport PROVE ReportOK'
  BY <1>2 DEF ReportOK
<1>3. ASSUME NEW m \in {"off", "counters", "commands"}, SetProfiling(m) PROVE report' = NoReport
  BY <1>3 DEF SetProfiling
<1>4. CASE Begin
  BY <1>2, <1>4 DEF Begin
<1>5. CASE EncodeRefused \/ EndEncoding
  BY <1>2, <1>5 DEF EncodeRefused, EndEncoding, DropFrame, ProfilerPlace
<1>6. ASSUME NEW k \in Kernels, EncodeFailed(k) PROVE report' = NoReport
  BY <1>6 DEF EncodeFailed, DropFrame, ProfilerPlace
<1>7. ASSUME NEW k \in Kernels, NEW t \in Ticks, Encode(k, t) PROVE report' = NoReport
  BY <1>7 DEF Encode, ProfilerPlace
<1>8. ASSUME NEW ts \in [1..Len(entries) -> Ticks], Finish(ts) \/ FinishFailed(ts)
      PROVE  report' = NoReport
  BY <1>8 DEF Finish, FinishFailed, ProfilerPlace
<1>9. CASE Report
  BY <1>9, ReportStep
<1>10. CASE Tick
  BY <1>1, <1>10 DEF Tick
<1>11. CASE UNCHANGED vars
  BY <1>1, <1>11 DEF vars
<1> QED
  BY <1>2, <1>3, <1>4, <1>5, <1>6, <1>7, <1>8, <1>9, <1>10, <1>11 DEF Next

----------------------------------------------------------------------------
\* The invariant.

LEMMA InvariantHolds == Spec => []IInv
<1>1. Init => IInv
  <2> SUFFICES ASSUME Init PROVE IInv
    OBVIOUS
  <2>1. /\ <<>> \in Seq(Kernels) /\ <<>> \in Seq(Ticks) /\ <<>> \in Seq(Dispatch)
        /\ Len(<<>>) = 0
    BY EmptySeq
  <2>2. TypeOK
    <3>1. frame \in [began : Nat, status : {"none", "running", "completed", "failed"}]
          /\ calibration \in [start : Nat, end : Nat]
      BY DEF Init, NoWindow
    <3>2. /\ entries \in Seq(Kernels) /\ dispatch_seconds \in Seq(Ticks)
          /\ results \in Seq(Ticks) /\ ran \in Seq(Dispatch)
      BY <2>1 DEF Init
    <3>3. /\ mode \in {"off", "counters", "commands"} /\ pc \in {"idle", "encoding", "resolved"}
          /\ timing_error \in BOOLEAN /\ aborted \in BOOLEAN /\ frame_timing \in BOOLEAN
          /\ resolved_command \in {"none", "running", "completed", "error"}
      BY DEF Init
    <3>4. resolved_samples \in Nat \cup {-1} /\ start_pair \in Nat /\ now \in Nat \ {0}
      BY DEF Init
    <3> QED
      BY <3>1, <3>2, <3>3, <3>4 DEF TypeOK
  <2> QED
    BY <2>1, <2>2 DEF Init, IInv, ProfilerPlace, ClocksOfFrame, CommandsRan, FrameRan, ReportOK
<1>2. IInv /\ [Next]_vars => IInv'
  BY TypesKept, PlaceKept, ClocksKept, CommandsKept, FrameKept, ReportKept DEF IInv
<1> QED
  BY <1>1, <1>2, PTL DEF Spec

----------------------------------------------------------------------------
\* The promises.

\* The dispatches that ran are a report's entries and durations.
LEMMA RanIsReported ==
  ASSUME TypeOK, NEW ts \in Seq(Ticks), RanAs(ts)
  PROVE  /\ [i \in 1..Len(ran) |-> ran[i].kernel] = entries
         /\ [i \in 1..Len(ran) |-> ran[i].ticks] = ts
<1> DEFINE f == [i \in 1..Len(ran) |-> ran[i].kernel]
           g == [i \in 1..Len(ran) |-> ran[i].ticks]
<1>1. /\ Len(entries) \in Nat /\ Len(ran) = Len(entries) /\ Len(ts) = Len(entries)
      /\ entries \in Seq(Kernels)
      /\ \A i \in 1..Len(ran) : ran[i].kernel = entries[i] /\ ran[i].ticks = ts[i]
  BY LenProperties DEF RanAs, TypeOK
<1>2. f \in [1..Len(ran) -> Kernels] /\ g \in [1..Len(ran) -> Ticks]
  <2>1. \A i \in 1..Len(ran) : entries[i] \in Kernels /\ ts[i] \in Ticks
    BY <1>1, ElementOfSeq
  <2> QED
    BY <1>1, <2>1
<1>3. /\ \A i \in 1..Len(ran) : f[i] = entries[i] /\ g[i] = ts[i]
  BY <1>1
<1> HIDE DEF f, g
<1>4. f \in Seq(Kernels) /\ Len(f) = Len(ran) /\ g \in Seq(Ticks) /\ Len(g) = Len(ran)
  BY <1>1, <1>2, FunctionIsSeq
<1>5. f = entries
  BY <1>1, <1>3, <1>4, SeqEqual
<1>6. g = ts
  BY <1>1, <1>3, <1>4, SeqEqual
<1> QED
  BY <1>5, <1>6 DEF f, g

LEMMA ReportFromInvariant ==
  ASSUME IInv
  PROVE  ReportDescribesFrame
<1>1. TypeOK /\ ProfilerPlace /\ ClocksOfFrame /\ CommandsRan /\ FrameRan /\ ReportOK
  BY DEF IInv
<1>2. frame_timing => frame.status = "completed"
  BY <1>1 DEF ProfilerPlace
<1>3. ASSUME report.ok
      PROVE  /\ frame.status = "completed"
             /\ \A i \in 1..Len(ran) : ran[i].ticks # Missing
             /\ report.rows = Rows([i \in 1..Len(ran) |-> ran[i].kernel],
                                   [i \in 1..Len(ran) |-> ran[i].ticks])
             /\ report.window # NoWindow => report.window.start >= frame.began
  <2>1. report # NoReport
    BY <1>3 DEF NoReport
  <2>2. /\ report = TheReport /\ ReportReady
        /\ \A i \in 1..Len(entries) : Measured[i] # Missing
    BY <1>1, <2>1 DEF ReportOK
  <2>3. pc = "idle" /\ resolved_samples # -1 /\ mode \in {"counters", "commands"}
        /\ resolved_command = "completed"
    <3>1. pc = "idle"
      BY <1>1, <2>1 DEF ProfilerPlace
    <3>2. Len(entries) \in Nat
      BY <1>1, LenProperties DEF TypeOK
    <3> QED
      BY <1>1, <2>2, <3>1, <3>2 DEF ReportReady, TypeOK
  <2>4. frame.status = "completed"
    BY <1>1, <2>3 DEF FrameRan
  <2>5. Measured \in Seq(Ticks) /\ RanAs(Measured)
    <3>1. CASE mode = "commands"
      BY <1>1, <2>3, <3>1, MeasuredIs DEF CommandsRan, TypeOK
    <3>2. CASE mode = "counters"
      <4>1. RanAs(results)
        BY <1>1, <2>3, <3>2 DEF FrameRan
      <4>2. Len(results) = Len(entries)
        BY <4>1 DEF RanAs
      <4>3. Measured = results
        BY <1>1, <3>2, <4>2, MeasuredIs
      <4> QED
        BY <1>1, <4>1, <4>3 DEF TypeOK
    <3> QED
      BY <2>3, <3>1, <3>2
  <2>6. \A i \in 1..Len(ran) : ran[i].ticks # Missing
    BY <2>2, <2>5 DEF RanAs
  <2>7. report.rows = Rows([i \in 1..Len(ran) |-> ran[i].kernel],
                           [i \in 1..Len(ran) |-> ran[i].ticks])
    <3>1. /\ [i \in 1..Len(ran) |-> ran[i].kernel] = entries
          /\ [i \in 1..Len(ran) |-> ran[i].ticks] = Measured
      BY <1>1, <2>5, RanIsReported
    <3>2. report.rows = Rows(entries, Measured)
      BY <2>2 DEF TheReport
    <3> QED
      BY <3>1, <3>2
  <2>8. report.window # NoWindow => report.window.start >= frame.began
    BY <1>1, <2>2 DEF TheReport, ReportWindow, ClocksOfFrame
  <2> QED
    BY <2>4, <2>6, <2>7, <2>8
<1> QED
  BY <1>2, <1>3 DEF ReportDescribesFrame

\* Whatever fails or is dropped, in either mode, a whole-frame timing and a
\* successful report are about the frame begun last: it completed, each
\* dispatch that the GPU ran counts once in the rows with the duration it had,
\* and the clocks were sampled after the frame began (StageProfiler::report).
THEOREM ReportsDescribeTheFrame == Spec => []ReportDescribesFrame
<1>1. IInv => ReportDescribesFrame
  BY ReportFromInvariant
<1> QED
  BY <1>1, InvariantHolds, PTL

\* A second report on a frame reads what the first did, whatever the clocks
\* show by then (the calibration kept by StageProfiler::report).
THEOREM ReportsAgreeAlways == Spec => ReportsAgree
<1>1. IInv /\ [Next]_vars => [report.ok /\ report'.ok => report' = report]_vars
  <2> SUFFICES ASSUME IInv, [Next]_vars, report.ok, report'.ok PROVE report' = report
    OBVIOUS
  <2>1. report # NoReport /\ report' # NoReport
    BY DEF NoReport
  <2> QED
    BY <2>1, ReportKept DEF IInv
<1> QED
  BY <1>1, InvariantHolds, PTL DEF Spec, ReportsAgree

\* After an aborted, dropped or failed frame the next frame's first dispatch
\* passes the checks of encoder() (StageProfiler::reset, and the resolved
\* command it keeps).
THEOREM NextFrameIsAccepted == Spec => NextFrameAccepted
<1>1. IInv /\ [Next]_vars =>
        [pc = "idle" /\ pc' = "encoding" /\ mode # "off" => EncoderReady']_vars
  <2> SUFFICES ASSUME IInv, [Next]_vars, pc = "idle", pc' = "encoding", mode # "off"
               PROVE  EncoderReady'
    OBVIOUS
  <2>1. Begin
    BY DEF Next, vars, SetProfiling, EncodeRefused, EncodeFailed, Encode, EndEncoding, Finish,
           FinishFailed, Report, Tick, DropFrame
  <2>2. /\ aborted' = FALSE /\ resolved_samples' = -1 /\ entries' = <<>>
        /\ dispatch_seconds' = <<>> /\ resolved_command' = resolved_command
    BY <2>1 DEF Begin, ResetProfile, Fresh
  <2>3. resolved_command \in {"none", "completed", "error"}
    BY DEF IInv, ProfilerPlace, TypeOK
  <2>4. Len(<<>>) = 0
    BY EmptySeq
  <2> QED
    BY <2>2, <2>3, <2>4, ProfilerAssumption DEF EncoderReady
<1> QED
  BY <1>1, InvariantHolds, PTL DEF Spec, NextFrameAccepted
=============================================================================
