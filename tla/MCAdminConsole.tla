--------------------------- MODULE MCAdminConsole ---------------------------
(* Two of the pages of the menu.                                            *)
EXTENDS AdminConsole

CONSTANTS sessionInfo, deviceInfo, admin, other

Pages    == {sessionInfo, deviceInfo}
Accounts == {admin, other}
=============================================================================
