---------------------------- MODULE ServeSettings ----------------------------
(***************************************************************************)
(* The desktop application's settings transactions (main.rs, tailscale.rs, *)
(* transaction.rs): publishing the agent through a Tailscale Serve rule,   *)
(* withdrawing it, recovery from the journal, the uninstaller's clean-up   *)
(* and the media settings, which share agent.toml.  Every file step can    *)
(* fail and every process can die between two steps; the Serve rule itself *)
(* belongs to the Tailscale daemon, which others change too.  A rule for   *)
(* our backend is its DNS name: the proxy, the origin and the receipt all  *)
(* follow from it.                                                         *)
(***************************************************************************)
EXTENDS Naturals

CONSTANTS
  Proc,      \* processes that run settings commands (windows, the uninstaller)
  Dns,       \* names the Tailscale node may have
  Media,     \* values of the [media] table
  Absent,    \* HTTPS 443 is unused
  Other,     \* HTTPS 443 has a rule that is not for our backend
  None,
  MaxFaults  \* bound of the model: errors and deaths

ASSUME ServeNames == MaxFaults \in Nat /\ Dns \cap {Absent, Other, None} = {} /\ Absent # Other /\ None \notin Proc

VARIABLES
  mutex,      \* the process that holds the named mutex, or None
  abandoned,  \* the mutex remembers that its last holder died
  dns,        \* the node's name
  rule,       \* the daemon's rule for HTTPS 443
  made,       \* history: the rule is one that this program put there
  receipt,    \* tailscale-serve-receipt.json
  pending,    \* tailscale-serve-pending.json, the journal
  config,     \* agent.toml: public_origin and [media]
  saved,      \* history: the media settings last saved with success
  faults,     \* errors and deaths so far
  pc,         \* where each process is
  job         \* its local variables

files == <<receipt, pending, config, saved>>
daemon == <<dns, rule, made>>
settingsVars == <<mutex, abandoned, dns, rule, made, receipt, pending, config, saved, faults, pc, job>>

Operation == {"enable", "disable", "uninstall", "status", "media"}
\* parse_status: nothing listens on HTTPS 443, the agent's backend does under a name of the node,
\* or anything else that the daemon's status may say (other handlers, Funnel, a foreground session).
Rule == Dns \cup {Absent, Other}
Entry == [on : BOOLEAN, receipt : Dns \cup {None}, dns : Dns]
Config == [origin : Dns \cup {None}, media : Media]
ASSUME NoEntry == None \notin Entry   \* no file is not a file
\* doc is the configuration a process has read, cand the receipt it is writing.
Idle == [op |-> "status", flag |-> FALSE, cand |-> None, media |-> None, doc |-> None]

SettingsInit ==
  /\ mutex = None /\ abandoned = FALSE /\ faults = 0
  /\ dns \in Dns /\ rule \in {Absent, Other} /\ made = FALSE
  /\ receipt = None /\ pending = None
  /\ \E m \in Media : config = [origin |-> None, media |-> m] /\ saved = m
  /\ pc = [p \in Proc |-> "idle"] /\ job = [p \in Proc |-> Idle]

\* The type invariant.
SettingsTypeOK ==
  /\ mutex \in Proc \cup {None} /\ {abandoned, made} \subseteq BOOLEAN
  /\ dns \in Dns /\ rule \in Rule
  /\ receipt \in Dns \cup {None} /\ pending \in Entry \cup {None} /\ config \in Config
  /\ saved \in Media /\ faults \in 0 .. MaxFaults
  /\ \A p \in Proc : pc[p] = "idle" <=> mutex # p

-----------------------------------------------------------------------------
(* The named mutex. *)

At(p, place) == pc[p] = place
Go(p, place) == pc' = [pc EXCEPT ![p] = place] /\ UNCHANGED <<mutex, abandoned, faults>>

\* The process that finds the mutex abandoned is the only one ever told.
Acquire(p, op, m) ==
  /\ At(p, "idle") /\ mutex = None
  /\ mutex' = p /\ abandoned' = FALSE /\ UNCHANGED faults
  /\ pc' = [pc EXCEPT ![p] = "opened"]
  /\ job' = [job EXCEPT ![p] = [Idle EXCEPT !.op = op, !.flag = abandoned, !.media = m]]
  /\ UNCHANGED <<daemon, files>>

\* The process leaves the command; forgotten: its mutex is marked abandoned.
Leave(p, forgotten) ==
  /\ mutex' = None /\ abandoned' = forgotten
  /\ pc' = [pc EXCEPT ![p] = "idle"] /\ job' = [job EXCEPT ![p] = Idle]

Fault == faults' = faults + 1 /\ faults' <= MaxFaults

\* The command returns and drops its guard.
Finish(p) == Leave(p, FALSE) /\ UNCHANGED faults

\* A file, registry or CLI error ends the command where it is, with nothing undone.
Fail(p) == ~At(p, "idle") /\ Leave(p, FALSE) /\ Fault /\ UNCHANGED <<daemon, files>>

\* The process dies.  The kernel keeps the mutex, abandoned, only while another process
\* has it open; otherwise the next one creates it afresh.
Crash(p) ==
  /\ ~At(p, "idle") /\ Fault /\ UNCHANGED <<daemon, files>>
  /\ \E forgotten \in BOOLEAN : Leave(p, forgotten)

-----------------------------------------------------------------------------
(* Reading the rule and deciding what to do. *)

\* inspection_from: what the rule is to the holder of a receipt.
Ownership(rec) == IF rule = Absent THEN "Absent" ELSE IF rec # None /\ rule = rec THEN "Owned" ELSE "Conflict"

\* Mutant of Candidate: recovery trusts only a receipt in the journal.
CandidateStrict == pending.receipt

\* The receipt that recovery may write: the journal's own, or the rule the journal expects.
Candidate == IF pending.receipt # None THEN pending.receipt ELSE IF rule = pending.dns THEN rule ELSE None

\* Where a command goes from its checks and its inspection; "return" when it refuses.
Plan(op, flag) ==
  IF flag /\ (op = "media" \/ pending = None) THEN "return"
  ELSE IF op = "media" THEN "read"
  ELSE IF op = "status" THEN
         IF pending = None THEN "return"
         ELSE IF pending.on THEN IF Ownership(Candidate) = "Owned" THEN "receipt" ELSE "return"
         ELSE IF rule = Absent THEN "unreceipt" ELSE "return"
  ELSE IF pending # None THEN "return"
  ELSE IF op = "enable" THEN IF rule = Absent THEN "journal" ELSE "return"
  ELSE IF Ownership(receipt) = "Owned" THEN "journal"
  ELSE IF op = "uninstall" /\ receipt # None /\ rule = Absent THEN "unreceipt" ELSE "return"

Inspect(p) ==
  LET place == Plan(job[p].op, job[p].flag) IN
  /\ At(p, "opened")
  /\ IF place = "return" THEN Finish(p)
     ELSE /\ Go(p, place)
          /\ job' = [job EXCEPT ![p].cand = IF place = "receipt" THEN Candidate ELSE None]
  /\ UNCHANGED <<daemon, files>>

-----------------------------------------------------------------------------
(* Changing the rule: journal, command, verification. *)

Adding(p) == job[p].op = "enable"

Journal(p) ==
  /\ At(p, "journal") /\ Go(p, "command")
  /\ pending' = IF Adding(p) THEN [on |-> TRUE, receipt |-> None, dns |-> dns]
                ELSE [on |-> FALSE, receipt |-> receipt, dns |-> receipt]
  /\ UNCHANGED <<daemon, receipt, config, saved, job>>

\* tailscale serve ran.  If the five seconds of SystemRunner::run were over the command is an
\* error although the daemon has done it, and the journal stays.
Command(p, timely) ==
  /\ At(p, "command")
  /\ rule' = IF Adding(p) THEN dns ELSE Absent
  /\ made' = Adding(p)
  /\ IF timely THEN Go(p, "verify") /\ UNCHANGED job ELSE Leave(p, FALSE) /\ Fault
  /\ UNCHANGED <<dns, files>>

\* Mutant of Refused: the journal is dropped after any error, a timeout included.
RefusedAny(p) ==
  /\ At(p, "command") /\ job[p].op # "uninstall" /\ Go(p, "done")
  /\ \/ UNCHANGED <<rule, made>>
     \/ rule' = (IF Adding(p) THEN dns ELSE Absent) /\ made' = Adding(p)
  /\ UNCHANGED <<job, files, dns>>

\* The CLI refused (CommandFailed): the daemon has done nothing.  The uninstaller treats
\* this as any other error and keeps its journal.
Refused(p) ==
  /\ At(p, "command") /\ job[p].op # "uninstall"
  /\ Go(p, "done") /\ UNCHANGED <<job, daemon, files>>

\* The rule as it is after the command, which others may have changed since.
Verify(p) ==
  /\ At(p, "verify")
  /\ \/ /\ Adding(p) /\ rule \in Dns
        /\ Go(p, "journal2") /\ job' = [job EXCEPT ![p].cand = rule]
     \/ /\ ~Adding(p) /\ rule = Absent
        /\ Go(p, "unreceipt") /\ UNCHANGED job
     \/ /\ IF Adding(p) THEN rule \notin Dns ELSE rule # Absent
        /\ Finish(p)
  /\ UNCHANGED <<daemon, files>>

JournalReceipt(p) ==
  /\ At(p, "journal2") /\ Go(p, "receipt")
  /\ pending' = [pending EXCEPT !.receipt = job[p].cand]
  /\ UNCHANGED <<daemon, receipt, config, saved, job>>

-----------------------------------------------------------------------------
(* The files: receipt, then configuration, then the journal's end. *)

\* Mutant of WriteReceipt: the journal ends with the receipt, before the configuration.
WriteReceiptLast(p) ==
  /\ At(p, "receipt") /\ Go(p, "read")
  /\ receipt' = job[p].cand /\ pending' = None /\ UNCHANGED <<daemon, config, saved, job>>

WriteReceipt(p) ==
  /\ At(p, "receipt") /\ Go(p, "read")
  /\ receipt' = job[p].cand /\ UNCHANGED <<daemon, pending, config, saved, job>>

RemoveReceipt(p) ==
  /\ At(p, "unreceipt") /\ Go(p, "read")
  /\ receipt' = None /\ UNCHANGED <<daemon, pending, config, saved, job>>

\* update_public_origin and set_media_document read the whole document ...
ReadConfig(p) ==
  /\ At(p, "read") /\ Go(p, "write")
  /\ job' = [job EXCEPT ![p].doc = config] /\ UNCHANGED <<daemon, files>>

\* ... change their part of it and rename the result into place.
WriteConfig(p) ==
  /\ At(p, "write") /\ job[p].op # "media" /\ Go(p, "done")
  /\ config' = [job[p].doc EXCEPT !.origin = job[p].cand]
  /\ UNCHANGED <<daemon, receipt, pending, saved, job>>

SaveMedia(p) ==
  /\ At(p, "write") /\ job[p].op = "media" /\ Finish(p)
  /\ config' = [job[p].doc EXCEPT !.media = job[p].media] /\ saved' = job[p].media
  /\ UNCHANGED <<daemon, receipt, pending>>

RemovePending(p) ==
  /\ At(p, "done") /\ Finish(p)
  /\ pending' = None /\ UNCHANGED <<daemon, receipt, config, saved>>

-----------------------------------------------------------------------------
(* The world: somebody else sets or clears the rule, or renames the node. *)

Foreign ==
  /\ rule' \in {Absent, Other, dns} /\ rule' # rule /\ made' = FALSE
  /\ UNCHANGED <<dns, mutex, abandoned, files, faults, pc, job>>

Rename ==
  /\ dns' \in Dns \ {dns} /\ UNCHANGED <<rule, made, mutex, abandoned, files, faults, pc, job>>

Step(p) ==
  \/ Inspect(p) \/ Journal(p) \/ Verify(p) \/ JournalReceipt(p) \/ Refused(p)
  \/ \E timely \in BOOLEAN : Command(p, timely)
  \/ WriteReceipt(p) \/ RemoveReceipt(p) \/ ReadConfig(p) \/ WriteConfig(p) \/ SaveMedia(p)
  \/ RemovePending(p) \/ Fail(p)

SettingsNext ==
  \/ \E p \in Proc :
       \/ \E op \in Operation \ {"media"} : Acquire(p, op, None)
       \/ \E m \in Media : Acquire(p, "media", m)
       \/ Step(p) \/ Crash(p)
  \/ Foreign \/ Rename

\* A command runs to its end, and the status page keeps asking.
SettingsFairness ==
  /\ \A p \in Proc : WF_settingsVars(Step(p))
  /\ SF_settingsVars(\E p \in Proc : Acquire(p, "status", None))

SettingsSpec == SettingsInit /\ [][SettingsNext]_settingsVars /\ SettingsFairness

-----------------------------------------------------------------------------
(* Properties. *)

\* A rule that this program put in place is never forgotten: whatever step failed or whichever
\* process died, the receipt names it or a journal is left for tailscale_status to resolve, so
\* the program never publishes the agent under a rule it would later call foreign.
OwnedIsRecorded == made => receipt = rule \/ pending # None

\* agent.toml is what the finished commands made it: neither of the two commands that read,
\* change and rename it loses the other's part, and outside a transaction, without a journal,
\* the origin the agent will announce is the host of the receipt, because an interrupted
\* change always leaves the journal behind.
ConfigCommitted ==
  /\ config.media = saved
  /\ mutex = None /\ pending = None /\ receipt # None => config.origin = receipt

\* What an interrupted change left behind is one that tailscale_status can finish.
Resolvable ==
  /\ pending # None
  /\ rule = IF ~pending.on THEN Absent
            ELSE IF pending.receipt # None THEN pending.receipt ELSE pending.dns

\* A journal that agrees with the rule is resolved by asking for the status, wherever the
\* change was interrupted; only a rule that does not stay as the journal expects prevents it.
RecoveryEnds == []<>~Resolvable
=============================================================================
