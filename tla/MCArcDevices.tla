----------------------------- MODULE MCArcDevices -----------------------------
(* ArcDevices for TLC: open for all devices, for one, for one that does not exist
   and with a bad token after the first; selections of all devices and of one
   beside a device that does not exist. *)
EXTENDS ArcDevices

MCRequests == {<<>>, <<1>>, <<2>>}
MCBad == {<<0>>}
MCSelections == {<<>>, <<0, 2>>}
===============================================================================
