-------------------------- MODULE MCLoraTransport --------------------------
(***************************************************************************)
(* LoraTransport on small networks: the devices, and the claims of the     *)
(* repository's comments that the code does not keep.                      *)
(***************************************************************************)
EXTENDS LoraTransportService

CONSTANTS a, b, c   \* three devices

TwoNodes   == {a, b}
ThreeNodes == {a, b, c}

\* LoRaExample.cpp:64 "result mówi o sukcesie wysyłania" (the result tells whether the
\* sending succeeded): the message of a call that returned true has passed the token check
\* of its destination, or at least still travels to it.
AckMeansAccepted ==
    \A n \in Node :
        call[n].phase = "success" =>
            LET d == call[n].dest IN
            \/ call[n].id \in Range(accepted[d][n]) \cup Range(dropped[d][n])
            \/ \E f \in Range(air[n][d]) : IsData(f) /\ f.id = call[n].id

\* The same claim on a lossless medium that answers in time: the message of a call that
\* returned true was not thrown away by a destination whose new_frame_queue was full.
AckMeansQueued ==
    \A n \in Node :
        call[n].phase = "success" => call[n].id \notin Range(dropped[call[n].dest][n])

\* loraEncryption.h:87 "wywali przy przepełnieniu (TOKEN_MAX), ale nie szkodzi" (it breaks
\* on overflow, but that does no harm): when all the calls of a device have been made and
\* the last one failed, some message of it has got through.
OverflowHarmless ==
    \A n \in Sender :
        calls[n] = MaxCalls /\ call[n].phase = "failure" =>
            \E d \in Node : accepted[d][n] # <<>>
=============================================================================
