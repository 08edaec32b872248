----------------------------- MODULE Measurement -----------------------------
(***************************************************************************)
(* The commit-reveal exchange of an epoch: MeasurementProtocol             *)
(* (measurement.py) as ValidatorNode (validator.py) drives it.  In each    *)
(* round a validator measures round-trip times, broadcasts a commitment to *)
(* them, later reveals them, and a proposer puts what it has collected     *)
(* into its proposal.  An epoch may be run more than once (node.py), and   *)
(* validators go through epochs at different paces.                        *)
(*                                                                         *)
(* `sent' holds every message of an honest validator; any of them, and any *)
(* of FaultyMessages, may be received at any time, repeatedly or never.    *)
(*                                                                         *)
(* Abstractions.  The measurements of one round are one value, told apart  *)
(* by source, epoch and round (each has a random nonce), and a commitment  *)
(* hash is the value it was computed from.  Targets and times are left     *)
(* out.  Which validator proposes, and when, is Consensus's matter: here   *)
(* every validator may do so at any time.                                  *)
(***************************************************************************)
EXTENDS Integers, FiniteSets

CONSTANTS
    Validators,
    Faulty,          \* the ones that may send anything in their own name
    FaultyMessages,  \* what they can have sent
    MaxEpoch,        \* bound: the last epoch
    MaxRounds,       \* bound: start_epoch calls per validator
    None

Epochs == 0 .. MaxEpoch
Honest == Validators \ Faulty
Sets == [source : Validators, epoch : Epochs, round : 0 .. MaxRounds]

Commitments == [type : {"commitment"}, validator_id : Validators, epoch : Epochs, hash : Sets]
\* hash is the commitment_hash of the commitment inside the reveal
Reveals == [type : {"reveal"}, validator_id : Validators, epoch : Epochs,
            measurements : Sets, hash : Sets]
Messages == Commitments \cup Reveals
\* What a proposer has collected, from each validator
Collected == [Validators -> Sets \cup {None}]

ASSUME FaultyAssumption ==
    /\ Faulty \subseteq Validators
    /\ FaultyMessages \subseteq {m \in Messages : m.validator_id \in Faulty}

ASSUME BoundsAssumption == MaxEpoch \in Nat /\ MaxRounds \in Nat /\ None \notin Sets

VARIABLES
    current_epoch,
    phase,                 \* MeasurementPhase
    measurements,          \* the round's measurements, None before they are taken
    commitment,            \* what the validator has committed to
    received_commitments,  \* validator -> committed value or None
    received_reveals,      \* validator -> revealed measurements or None
    rounds,                \* start_epoch calls so far
    sent                   \* every message of an honest validator

ownVars == <<current_epoch, phase, measurements, commitment, rounds>>
receivedVars == <<received_commitments, received_reveals>>
vars == <<ownVars, receivedVars, sent>>

Nothing == [w \in Validators |-> None]

Init ==
    /\ current_epoch = [v \in Honest |-> 0]
    /\ phase = [v \in Honest |-> "IDLE"]
    /\ measurements = [v \in Honest |-> None]
    /\ commitment = [v \in Honest |-> None]
    /\ received_commitments = [v \in Honest |-> Nothing]
    /\ received_reveals = [v \in Honest |-> Nothing]
    /\ rounds = [v \in Honest |-> 0]
    /\ sent = {}

------------------------------------------------------------------------------
\* The same epoch again or the next one; everything of the last round is dropped.
StartEpoch(v, e) ==
    /\ rounds[v] < MaxRounds
    /\ e \in Epochs /\ e \in {current_epoch[v], current_epoch[v] + 1}
    /\ current_epoch' = [current_epoch EXCEPT ![v] = e]
    /\ phase' = [phase EXCEPT ![v] = "IDLE"]
    /\ measurements' = [measurements EXCEPT ![v] = None]
    /\ commitment' = [commitment EXCEPT ![v] = None]
    /\ received_commitments' = [received_commitments EXCEPT ![v] = Nothing]
    /\ received_reveals' = [received_reveals EXCEPT ![v] = Nothing]
    /\ rounds' = [rounds EXCEPT ![v] = @ + 1]
    /\ UNCHANGED sent

\* select_targets and execute_measurements
RunMeasurementPhase(v) ==
    /\ rounds[v] > 0
    /\ phase[v] = "IDLE" /\ measurements[v] = None
    /\ measurements' = [measurements EXCEPT ![v] =
            [source |-> v, epoch |-> current_epoch[v], round |-> rounds[v]]]
    /\ UNCHANGED <<current_epoch, phase, commitment, rounds, receivedVars, sent>>

\* create_measurement_commitment and broadcast_commitment
BroadcastCommitment(v) ==
    /\ phase[v] = "IDLE" /\ measurements[v] # None
    /\ commitment' = [commitment EXCEPT ![v] = measurements[v]]
    /\ phase' = [phase EXCEPT ![v] = "COMMIT"]
    /\ sent' = sent \cup {[type |-> "commitment", validator_id |-> v,
                           epoch |-> current_epoch[v], hash |-> measurements[v]]}
    /\ UNCHANGED <<current_epoch, measurements, rounds, receivedVars>>

BroadcastReveal(v) ==
    /\ phase[v] = "COMMIT"
    /\ phase' = [phase EXCEPT ![v] = "REVEAL"]
    /\ sent' = sent \cup {[type |-> "reveal", validator_id |-> v, epoch |-> current_epoch[v],
                           measurements |-> measurements[v], hash |-> commitment[v]]}
    /\ UNCHANGED <<current_epoch, measurements, commitment, rounds, receivedVars>>

\* A later commitment of the same validator replaces the one received before.
ReceiveCommitment(v, m) ==
    /\ m.type = "commitment" /\ m.validator_id # v
    /\ m.epoch = current_epoch[v]
    /\ received_commitments' = [received_commitments EXCEPT ![v][m.validator_id] = m.hash]
    /\ UNCHANGED <<ownVars, received_reveals, sent>>

\* Fault: the epoch is not compared.
AnyEpochReveal(v, m) ==
    /\ m.type = "reveal" /\ m.validator_id # v
    /\ received_commitments[v][m.validator_id] # None
    /\ m.measurements = m.hash
    /\ received_reveals' = [received_reveals EXCEPT ![v][m.validator_id] = m.measurements]
    /\ UNCHANGED <<ownVars, received_commitments, sent>>

\* Some commitment of the validator has to be there, but the measurements are
\* compared with the commitment that comes with the reveal.
ReceiveReveal(v, m) ==
    /\ m.type = "reveal" /\ m.validator_id # v
    /\ m.epoch = current_epoch[v]
    /\ received_commitments[v][m.validator_id] # None
    /\ m.measurements = m.hash
    /\ received_reveals' = [received_reveals EXCEPT ![v][m.validator_id] = m.measurements]
    /\ UNCHANGED <<ownVars, received_commitments, sent>>

\* What a proposal of v is made of: its own measurements and all it has received,
\* which is put in last and so wins over its own
GetAllMeasurements(v) ==
    [received_reveals[v] EXCEPT ![v] = IF @ = None THEN measurements[v] ELSE @]

Next ==
    \E v \in Honest :
        \/ \E e \in Epochs : StartEpoch(v, e)
        \/ RunMeasurementPhase(v) \/ BroadcastCommitment(v) \/ BroadcastReveal(v)
        \/ \E m \in sent \cup FaultyMessages : ReceiveCommitment(v, m) \/ ReceiveReveal(v, m)

Spec == Init /\ [][Next]_vars

------------------------------------------------------------------------------
(* Properties *)

\* Every part of the state keeps its type.
MeasurementTypeOK ==
    /\ current_epoch \in [Honest -> Epochs] /\ rounds \in [Honest -> 0 .. MaxRounds]
    /\ phase \in [Honest -> {"IDLE", "COMMIT", "REVEAL"}]
    /\ measurements \in [Honest -> Sets \cup {None}]
    /\ commitment \in [Honest -> Sets \cup {None}]
    /\ received_commitments \in [Honest -> Collected]
    /\ received_reveals \in [Honest -> Collected]
    /\ sent \subseteq Messages

\* The values w committed to in epoch e, one for each time it ran the epoch
CommittedBy(w, e) ==
    {s \in Sets : [type |-> "commitment", validator_id |-> w, epoch |-> e, hash |-> s] \in sent}

\* What an honest proposer v puts into a proposal for an honest validator w is what w
\* measured, in that epoch, and committed to before it revealed it, however late,
\* repeated or reordered the messages of its rounds arrive.  It has nothing for a
\* validator, faulty ones included, of which it received no commitment of that
\* epoch in that round; and if w ran the epoch once, the commitment v received is
\* to these very measurements.
ProposalsAuthentic ==
    \A v \in Honest : \A w \in Validators \ {v} :
        LET s == GetAllMeasurements(v)[w]
            e == current_epoch[v]
        IN  s # None =>
              /\ received_commitments[v][w] # None
              /\ w \in Honest =>
                    /\ s.source = w /\ s.epoch = e
                    /\ s \in CommittedBy(w, e)
                    /\ CommittedBy(w, e) = {s} => received_commitments[v][w] = s
==============================================================================
