----------------------------- MODULE MCSideEffects -----------------------------
EXTENDS SideEffects

Delays == <<1, 2>>
=============================================================================
