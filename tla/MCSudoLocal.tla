---------------------------- MODULE MCSudoLocal ----------------------------
(* sudo_local files of up to MaxLines of our lines, pam_permit, a gate line *)
(* at some other module's path, and a line of another facility.             *)
EXTENDS SudoLocal

MCLines == {IntegrityLine, GateLine, ConsoleOnlyLine, PermitLine,
            <<"auth", "sufficient", "/old/pam_sudowhat.so", GateArg>>,
            <<"session", "sufficient", Permit>>}
=============================================================================
