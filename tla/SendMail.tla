------------------------------- MODULE SendMail -------------------------------
(***************************************************************************)
(* scripts/send_mail.py: run(args), launched again by the user after it    *)
(* stopped.                                                                *)
(*                                                                         *)
(* run() reads the recipient file, one address per line, and POSTs one     *)
(* mail per line to MailWhale, sleeping between them.  raise_for_status    *)
(* turns an error status into an exception that ends the script, and a     *)
(* broken connection raises too, possibly after MailWhale accepted the     *)
(* mail.  Nothing records how far a launch got, so the next launch starts  *)
(* again at the first line.                                                *)
(*                                                                         *)
(* Data abstraction: an address is a model value; the subject, content    *)
(* and throttle do not change what is sent to whom and are left out.      *)
(***************************************************************************)
EXTENDS Naturals, Sequences, FiniteSets

CONSTANTS
  Addrs,        \* the addresses the recipient file may list
  MaxLines,     \* bound on the lines of the recipient file
  MaxLaunches   \* bound on how often the user starts the script

MaxLinesAssumption == MaxLines \in Nat
ASSUME MaxLinesAssumption
MaxLaunchesAssumption == MaxLaunches \in Nat \ {0}
ASSUME MaxLaunchesAssumption

VARIABLES
  recipients,  \* read_recipients(args.recipients): the stripped lines
  i,           \* the line of the for loop being sent
  pc,          \* "send" | "done" | "failed"
  inbox,       \* address -> number of copies of the mail it received
  launches     \* how often the script was started

vars == <<recipients, i, pc, inbox, launches>>

-----------------------------------------------------------------------------
(* The recipient files the user can write: up to MaxLines addresses, an    *)
(* address possibly on several lines.                                      *)
RecipientFiles == UNION {[1..k -> Addrs] : k \in 0..MaxLines}

(* The for loop of run() starts at the first line.                         *)
FirstLineSkipHeader == 2
FirstLine == 1

(* send(recipient, ...) was accepted by MailWhale: the mail goes out to    *)
(* payload['to'] = [recipient].                                            *)
DeliveredToAll(a) == [b \in Addrs |-> inbox[b] + 1]
Delivered(a) == [inbox EXCEPT ![a] = @ + 1]

-----------------------------------------------------------------------------
Init ==
  /\ recipients \in RecipientFiles
  /\ i = FirstLine
  /\ pc = "send"
  /\ inbox = [a \in Addrs |-> 0]
  /\ launches = 1

(* send() returns and run() goes on with the next line after the sleep.    *)
SendAccepted ==
  /\ pc = "send"
  /\ i <= Len(recipients)
  /\ inbox' = Delivered(recipients[i])
  /\ i' = i + 1
  /\ UNCHANGED <<recipients, pc, launches>>

(* raise_for_status raises HTTPError: the script ends, this mail unsent.   *)
SendRejected ==
  /\ pc = "send"
  /\ i <= Len(recipients)
  /\ pc' = "failed"
  /\ UNCHANGED <<recipients, i, inbox, launches>>

(* http.post raises ConnectionError or a timeout: the script ends, and     *)
(* MailWhale may or may not have accepted the mail.                        *)
SendLost ==
  /\ pc = "send"
  /\ i <= Len(recipients)
  /\ inbox' \in {inbox, Delivered(recipients[i])}
  /\ pc' = "failed"
  /\ UNCHANGED <<recipients, i, launches>>

(* The for loop is over.                                                   *)
FinishEarly ==
  /\ pc = "send"
  /\ i >= Len(recipients)
  /\ pc' = "done"
  /\ UNCHANGED <<recipients, i, inbox, launches>>
Finish ==
  /\ pc = "send"
  /\ i > Len(recipients)
  /\ pc' = "done"
  /\ UNCHANGED <<recipients, i, inbox, launches>>

(* The user starts the script again on the same recipient file.            *)
Relaunch ==
  /\ pc \in {"done", "failed"}
  /\ launches < MaxLaunches
  /\ i' = FirstLine
  /\ pc' = "send"
  /\ launches' = launches + 1
  /\ UNCHANGED <<recipients, inbox>>

Stopped ==
  /\ pc \in {"done", "failed"}
  /\ launches = MaxLaunches
  /\ UNCHANGED vars

Next == SendAccepted \/ SendRejected \/ SendLost \/ Finish \/ Relaunch \/ Stopped

Spec == Init /\ [][Next]_vars

-----------------------------------------------------------------------------
TypeOK ==
  /\ recipients \in RecipientFiles
  /\ i \in 1..Len(recipients) + 1
  /\ pc \in {"send", "done", "failed"}
  /\ inbox \in [Addrs -> 0..MaxLines * MaxLaunches]
  /\ launches \in 1..MaxLaunches

(* The addresses listed on lines 1..k of the recipient file.              *)
Listed(k) == {recipients[j] : j \in 1..k}

(* How often an address is listed in the recipient file.                  *)
Lines(a) == Cardinality({j \in 1..Len(recipients) : recipients[j] = a})

(* An address gets no more copies than its lines in the file times the     *)
(* launches: every copy comes from sending one of its lines once in one    *)
(* launch, however the launches failed.                                    *)
CopiesBoundedByLaunches == \A a \in Addrs : inbox[a] <= launches * Lines(a)

(* A launch that ends normally has mailed every address of the file.       *)
DoneMeansAllMailed ==
  pc = "done" => \A a \in Listed(Len(recipients)) : inbox[a] > 0
=============================================================================
