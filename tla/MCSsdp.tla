------------------------------- MODULE MCSsdp -------------------------------
(***************************************************************************)
(* Instances of Ssdp for TLC.  There is one control point; which of its     *)
(* entries are followed decides what a run can tell.                        *)
(***************************************************************************)
EXTENDS Ssdp

CONSTANT cp

OneEntry == {<<cp, <<Udn>>>>}

\* The last announcement, which no search is answered with.
LastEntry == {<<cp, <<Udn, "ConnectionManager">>>>}

\* The entry of the UDN, and the one there must not be.
UdnEntries == {<<cp, <<Udn>>>>, <<cp, <<Udn, Udn>>>>}
=============================================================================
