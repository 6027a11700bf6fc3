--------------------------- MODULE MCRemoteShoot ----------------------------
(***************************************************************************)
(* Model values for RemoteShoot: the script of the command, and scripts of *)
(* the user that post messages, that return a value and that do not        *)
(* compile; cameras that offer the DNG header with the raw data and before *)
(* it.                                                                     *)
(***************************************************************************)
EXTENDS RemoteShoot

JpgDng == {"jpg", "raw", "dng_hdr"}
Jpg    == {"jpg"}

RawTogether == <<{"raw", "dng_hdr"}, {"jpg", "craw"}>>
HeaderFirst == <<{"dng_hdr"}, {"raw"}, {"jpg", "craw"}>>

Plain == [dng |-> FALSE, stages |-> RawTogether]
AsDng == [dng |-> TRUE, stages |-> HeaderFirst]

BothUses  == {Plain, AsDng}
OnlyPlain == {Plain}

UserScript ==
    [ok |-> TRUE,
     does |-> <<"shoot", "user", "pause", "shoot", "user">>]

ReturnsScript == [UserScript EXCEPT !.does = <<"shoot", "shoot", "return">>]
BadScript == [ok |-> FALSE, does |-> <<>>]

ShootScripts == {RsShoot, UserScript, ReturnsScript, BadScript}
OnlyRsShoot  == {RsShoot}
=============================================================================
