----------------------------- MODULE MCEspWebrtc -----------------------------
EXTENDS EspWebrtc

MCCallThreads == {"app", "worker", "aux"}

\* The Janus build, the build with the board's own HTTPS server, and AppRTC.
JanusBuild == [no_auto_reconnect |-> FALSE, bye |-> FALSE, gated |-> FALSE,
               again |-> FALSE, handler_closes |-> TRUE]
HttpBuild == [no_auto_reconnect |-> TRUE, bye |-> TRUE, gated |-> TRUE,
              again |-> FALSE, handler_closes |-> FALSE]
AppRtc == [no_auto_reconnect |-> FALSE, bye |-> TRUE, gated |-> FALSE,
           again |-> TRUE, handler_closes |-> FALSE]
MCSettings == {JanusBuild, HttpBuild, AppRtc}
=============================================================================
