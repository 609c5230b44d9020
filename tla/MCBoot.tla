------------------------------- MODULE MCBoot -------------------------------
(* Two of the clock's registers stand for the seven rtc_read reads. *)
EXTENDS Boot

MCRegisters == <<"second", "statusB">>
=============================================================================
