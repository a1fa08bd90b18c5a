----------------------------- MODULE MCSnnUart -----------------------------
EXTENDS SnnUartProperties

\* Payloads of the right length, shorter, and longer: some with a magic, or
\* with the beginning of one.
MCRequests ==
  [kind : AllKinds, body : {<<"x", "x">>}]
    \union [kind : {"good"},
            body : {<<"x">>, <<"x", "N", "S">>, <<"N", "S", "N", "N", "x">>}]
=============================================================================
