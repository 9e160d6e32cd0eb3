---------------------------- MODULE MCAdminArea ----------------------------
(***************************************************************************)
(* What the layout of the admin area mounts (_layout.tsx:64-124), for      *)
(* model checking: a behaviour is one of the session and what is kept for  *)
(* it, or one of the settings provider and its pages.                      *)
(***************************************************************************)
EXTENDS AdminSession, PanelSettings

VARIABLE part

vars == <<part, svars, pvars>>

(* The part that does not run starts in one of its states only.            *)
Init ==
  /\ part \in {"session", "settings"} /\ SessionInit /\ SettingsInit
  /\ part = "session" => saved = settings /\ here = PageOf(CHOOSE f \in Fields : TRUE)
  /\ part = "settings" => cookie = Nobody

Next ==
  \/ part = "session" /\ SessionNext /\ UNCHANGED <<part, pvars>>
  \/ part = "settings" /\ SettingsNext /\ UNCHANGED <<part, svars>>

(* The dashboard is not mounted in a behaviour of the settings, so that    *)
(* the fairness of the session asks for nothing there.  The provider       *)
(* begins with a read under way, served only in a behaviour of its own.    *)
Spec ==
  /\ Init /\ [][Next]_vars
  /\ SessionFairness
  /\ WF_vars(part = "settings" /\ (\E c \in posts : ServeSetting(c)) /\ UNCHANGED <<part, svars>>)
  /\ WF_pvars(\E c \in posts : Settle(c))
=============================================================================
