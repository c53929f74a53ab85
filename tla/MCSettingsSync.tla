---------------------------- MODULE MCSettingsSync ----------------------------
(* Two providers, one project that owns a session.                         *)
EXTENDS SettingsSync
CONSTANTS p1, p2
MCProviderIds == {p1, p2}
MCSessionFolders == {1}
=============================================================================
