------------------------ MODULE LoraTransportService ------------------------
(***************************************************************************)
(* LoraTransport implements LoraService: what the user of a device sees of *)
(* frames, tokens, answers and faults is calls, messages and results.      *)
(***************************************************************************)
EXTENDS LoraTransportInv

\* The calls of the user's tasks that have not returned.
PendingCalls ==
    {[from |-> n, to |-> call[n].dest, id |-> call[n].id] : n \in {m \in Node : Waiting(m)}}

Service ==
    INSTANCE LoraService WITH
        Forgetful <- Rebooter,
        issued    <- calls,
        pending   <- PendingCalls,
        delivered <- accepted,
        discarded <- dropped

\* Every step of the two tasks, of the medium and of a power loss is a step the service
\* allows or none at all: a message, delivered or thrown away for a full queue, passes the
\* token check once and in order, whichever of its copies arrive (_listen, _validate_token),
\* and each success takes an acceptance of its own (_send).
ImplementsService == Service!Spec

\* The same with the promise that every call returns, under the fairness of the tasks.
KeepsPromises == Service!FairSpec
=============================================================================
