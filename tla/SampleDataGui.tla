---------------------------- MODULE SampleDataGui ----------------------------
(***************************************************************************)
(* scripts/sample_data.py, with its Qt window (make_gui, callback = run)   *)
(* or headless (--headless: run(params, pbar.update, print)).              *)
(*                                                                         *)
(* A click on Generate runs call_back on the GUI thread: it sets the       *)
(* progress bar's maximum to params.n and its value to 0, disables the     *)
(* button and calls run() synchronously.  run() seeds the generator,       *)
(* builds params.n heartbeats with generate_data and posts them, all at    *)
(* once (batch mode) or one request per heartbeat, calling                 *)
(* update_progress after every successful post and on_error when httpx     *)
(* raises a RequestError.  Any other exception leaves the Qt slot          *)
(* uncaught, and PyQt6 then aborts the application.  Since run() holds the *)
(* GUI thread and the message boxes are modal, no second click reaches     *)
(* the window while a run is in progress: the model's steps of one run are *)
(* sequential, and a click is only possible between runs.  Headless, the   *)
(* script makes one run with the command line's parameters, counts on a    *)
(* tqdm bar, prints a RequestError and ends when run() returns.            *)
(*                                                                         *)
(* Data abstraction: heartbeats are counted, not built; their random       *)
(* contents matter only through the hour offset random.randint draws,      *)
(* which decides whether now - delta leaves datetime's range.              *)
(***************************************************************************)
EXTENDS Integers

CONSTANTS
  MaxN,           \* largest value of the "# Heartbeats" spin box explored
  Offsets,        \* values of the "Time Offset (hrs)" spin box explored
  OverflowHours,  \* hours before now that lie before datetime.min (year 1)
  Outcomes,       \* what the server and the network may do with a request
  Ns,             \* values of -n explored headless
  ProjectCounts   \* values of -p explored headless; the spin box's are >= 1

MaxNAssumption == MaxN \in Nat
ASSUME MaxNAssumption
OffsetsAssumption == Offsets \subseteq Int /\ Offsets # {}
ASSUME OffsetsAssumption
OverflowHoursAssumption == OverflowHours \in Nat \ {0}
ASSUME OverflowHoursAssumption
OutcomesAssumption ==
  Outcomes \subseteq {"ok", "RequestError", "RequestErrorStored", "HTTPStatusError"}
ASSUME OutcomesAssumption
NsAssumption == Ns \subseteq Int /\ Ns # {} /\ \A k \in Ns : k <= MaxN
ASSUME NsAssumption
ProjectCountsAssumption ==
  ProjectCounts \subseteq Int /\ \E c \in ProjectCounts : c >= 1
ASSUME ProjectCountsAssumption

Errors == {"none", "IndexError", "ValueError", "OverflowError", "HTTPStatusError"}

VARIABLES
  pc,        \* "idle": app.exec() waits for input; "posting": inside run();
             \* "crashed": an uncaught exception aborted the app; "closed";
             \* headless: "launch" before run(), "exited" after it
  gui,       \* show_gui: not --headless
  enabled,   \* start_button.isEnabled()
  barValue,  \* progress_bar.value(), or the tqdm bar's count; maximum() is n
  n,         \* params.n of the last click: len(data)
  batch,     \* params.batch of the last click
  sent,      \* heartbeats of data the loop of run() has posted successfully
  stored,    \* heartbeats of the last click's data the server has stored
  dialog,    \* the message box the last click has shown: "none", "Done", "Error"
  err        \* the exception that aborted the app, or "none"

vars == <<pc, gui, enabled, barValue, n, batch, sent, stored, dialog, err>>

-----------------------------------------------------------------------------
(* run(): params.offset * -1 if params.offset < 0 else params.offset       *)
Hours(off) == IF off < 0 THEN -off ELSE off

(* What generate_data(k, p, hours) may end in.  Every heartbeat first      *)
(* draws random.choice(projects), which raises IndexError with no project, *)
(* then random.randint(0, hours - 1) hours, which raises ValueError when   *)
(* hours = 0; a draw past OverflowHours makes now - delta raise            *)
(* OverflowError.  No heartbeat, no draw.                                  *)
GenerateOutcomes(k, p, hours) ==
  {e \in {"none", "IndexError", "ValueError", "OverflowError"} :
     \/ e = "none" /\ (k <= 0 \/ (p > 0 /\ hours > 0))
     \/ e = "IndexError" /\ k > 0 /\ p <= 0
     \/ e = "ValueError" /\ k > 0 /\ p > 0 /\ hours = 0
     \/ e = "OverflowError" /\ k > 0 /\ p > 0 /\ hours > OverflowHours}

(* The heartbeats one post_data_sync call carries: all of data in batch    *)
(* mode, [d] otherwise.                                                    *)
PostSize == IF batch THEN n ELSE 1

(* The loop `for d in data` of run() is over once s heartbeats were posted. *)
LoopDoneLate(s) == s > n
LoopDone(s) == s >= n

(* QProgressBar.setValue ignores a value outside [0, maximum].             *)
SetValue(v) == IF 0 <= v /\ v <= n THEN v ELSE barValue

(* update_progress(inc): when the bar reaches its maximum it is reset, the *)
(* button is enabled again and the "Done" box is shown.                    *)
UpdateProgressEarly(inc) ==
  IF barValue + inc + 1 = n
  THEN barValue' = 0 /\ enabled' = TRUE /\ dialog' = "Done"
  ELSE barValue' = SetValue(barValue + inc) /\ UNCHANGED <<enabled, dialog>>
UpdateProgress(inc) ==
  IF barValue + inc = n
  THEN barValue' = 0 /\ enabled' = TRUE /\ dialog' = "Done"
  ELSE barValue' = SetValue(barValue + inc) /\ UNCHANGED <<enabled, dialog>>

(* Headless, update_progress is tqdm's pbar.update(inc): it only counts.   *)
PbarUpdate(inc) == barValue' = barValue + inc /\ UNCHANGED <<enabled, dialog>>

(* on_error(e): the "Error" box, then the button is enabled again.         *)
OnErrorKeepsDisabled ==
  dialog' = "Error" /\ UNCHANGED <<enabled, barValue>>
OnErrorAfterProgress ==
  barValue' = SetValue(barValue + PostSize) /\ enabled' = TRUE /\ dialog' = "Error"
OnError ==
  dialog' = "Error" /\ enabled' = TRUE /\ UNCHANGED barValue

(* What follows the return of run(): app.exec() waits for the next click,  *)
(* or the headless script ends.                                            *)
RunReturned == IF gui THEN "idle" ELSE "exited"

-----------------------------------------------------------------------------
Init ==
  /\ gui \in BOOLEAN
  /\ pc = IF gui THEN "idle" ELSE "launch"
  /\ enabled = TRUE
  /\ barValue = 0
  /\ n = 0
  /\ batch = FALSE
  /\ sent = 0
  /\ stored = 0
  /\ dialog = "none"
  /\ err = "none"

(* A click on Generate: call_back, parse_params and the start of run()     *)
(* up to the first request.  In single mode with no heartbeats the loop    *)
(* has nothing to post and run() returns at once.                          *)
Click ==
  /\ pc = "idle"
  /\ enabled
  /\ \E k \in 0..MaxN, p \in {c \in ProjectCounts : c >= 1}, b \in BOOLEAN,
       off \in Offsets :
       /\ n' = k
       /\ batch' = b
       /\ \E e \in GenerateOutcomes(k, p, Hours(off)) :
            \/ e # "none" /\ pc' = "crashed" /\ err' = e
            \/ e = "none" /\ ~b /\ k = 0 /\ pc' = "idle" /\ UNCHANGED err
            \/ e = "none" /\ (b \/ k > 0) /\ pc' = "posting" /\ UNCHANGED err
  /\ barValue' = 0
  /\ enabled' = FALSE
  /\ sent' = 0
  /\ stored' = 0
  /\ dialog' = "none"
  /\ UNCHANGED gui

(* Headless: args_to_params, tqdm(total=params.n) and run() up to the      *)
(* first request.  -n and -p are any ints; a negative -n generates no      *)
(* heartbeat, so len(data) is 0.                                           *)
HeadlessRun ==
  /\ pc = "launch"
  /\ \E k \in Ns, p \in ProjectCounts, b \in BOOLEAN, off \in Offsets :
       /\ n' = IF k < 0 THEN 0 ELSE k
       /\ batch' = b
       /\ \E e \in GenerateOutcomes(k, p, Hours(off)) :
            \/ e # "none" /\ pc' = "crashed" /\ err' = e
            \/ e = "none" /\ ~b /\ k <= 0 /\ pc' = "exited" /\ UNCHANGED err
            \/ e = "none" /\ (b \/ k > 0) /\ pc' = "posting" /\ UNCHANGED err
  /\ UNCHANGED <<gui, enabled, barValue, sent, stored, dialog>>

(* post_data_sync returns: the server stored the heartbeats; run() calls   *)
(* update_progress and goes on with the next heartbeat, if any.            *)
PostAccepted ==
  /\ pc = "posting"
  /\ "ok" \in Outcomes
  /\ stored' = stored + PostSize
  /\ sent' = sent + PostSize
  /\ IF gui THEN UpdateProgress(PostSize) ELSE PbarUpdate(PostSize)
  /\ pc' = IF LoopDone(sent + PostSize) THEN RunReturned ELSE "posting"
  /\ UNCHANGED <<gui, n, batch, err>>

(* httpx raises a RequestError (connect error, timeout...), possibly after *)
(* the server stored the request; run() catches it and calls on_error,     *)
(* which headless is print.                                                *)
PostFailed ==
  /\ pc = "posting"
  /\ \E o \in Outcomes \cap {"RequestError", "RequestErrorStored"} :
       stored' = IF o = "RequestErrorStored" THEN stored + PostSize ELSE stored
  /\ IF gui THEN OnError ELSE UNCHANGED <<enabled, barValue, dialog>>
  /\ pc' = RunReturned
  /\ UNCHANGED <<gui, n, batch, sent, err>>

(* raise_for_status raises HTTPStatusError, which is no RequestError: it   *)
(* leaves the slot uncaught and the application aborts.                    *)
PostRejected ==
  /\ pc = "posting"
  /\ "HTTPStatusError" \in Outcomes
  /\ pc' = "crashed"
  /\ err' = "HTTPStatusError"
  /\ UNCHANGED <<gui, enabled, barValue, n, batch, sent, stored, dialog>>

(* The user closes the window: app.exec() returns and the script ends.     *)
Quit ==
  /\ pc = "idle"
  /\ pc' = "closed"
  /\ UNCHANGED <<gui, enabled, barValue, n, batch, sent, stored, dialog, err>>

Terminated ==
  /\ pc \in {"crashed", "closed", "exited"}
  /\ UNCHANGED vars

RunStep == PostAccepted \/ PostFailed \/ PostRejected

Next == Click \/ HeadlessRun \/ RunStep \/ Quit \/ Terminated

(* run() holds the GUI thread until it returns, and every httpx request    *)
(* ends (httpx's default timeout is 5 s): a started run keeps stepping.    *)
(* The headless script starts run() on its own.                            *)
Spec == Init /\ [][Next]_vars /\ WF_vars(RunStep) /\ WF_vars(HeadlessRun)

-----------------------------------------------------------------------------
TypeOK ==
  /\ pc \in {"idle", "posting", "crashed", "closed", "launch", "exited"}
  /\ gui \in BOOLEAN
  /\ enabled \in BOOLEAN
  /\ barValue \in 0..MaxN
  /\ n \in 0..MaxN
  /\ batch \in BOOLEAN
  /\ sent \in 0..n
  /\ stored \in 0..n
  /\ dialog \in {"none", "Done", "Error"}
  /\ err \in Errors

(* The "Done" box of update_progress is shown only when the server holds   *)
(* every heartbeat the run generated.                                      *)
DoneMeansAllStored == dialog = "Done" => stored = n

(* The progress bar never shows more heartbeats than the server stored: a  *)
(* failed request is never counted as progress.                            *)
ProgressNeverAhead == barValue <= stored

(* Once run() starts posting, it ends with the Generate button usable      *)
(* again, with the application gone, or with the headless script done: no *)
(* run leaves the window stuck.                                            *)
PostingEnds ==
  pc = "posting" ~> ((pc = "idle" /\ enabled) \/ pc \in {"crashed", "exited"})

(* After a click the Generate button is eventually enabled again, unless   *)
(* the application aborted or was closed.                                  *)
ButtonReenabled == ~enabled ~> (enabled \/ pc \in {"crashed", "closed"})

(* No exception escapes run() into the Qt slot: every error is reported    *)
(* through on_error.                                                       *)
NoUncaughtError == pc # "crashed"
=============================================================================
