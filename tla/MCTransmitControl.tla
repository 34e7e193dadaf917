------------------------- MODULE MCTransmitControl -------------------------
(* Small instances of TransmitControl. *)
EXTENDS TransmitControl

\* One producer of each kind: local by audio, local by TX; and audio, a CAT client (both its
\* routes) and a TCI client.  The Ulanzi dial asks exactly as the PTT button does.
EveryKind == {"PttButton", "Xmit", "CatClient", "TciClient"}

\* The two that use different audio sources, one of which keys by TX; and one by audio.
XmitAndTci == {"Xmit", "TciClient"}

\* The one that keys by TX; and streams as well.
XmitAlone == {"Xmit"}
=============================================================================
