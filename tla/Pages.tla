------------------------------- MODULE Pages -------------------------------
(***************************************************************************)
(* The pages of the two applications, each a document of its own with its  *)
(* own scripts: what one of them does leaves the others as they are, so a  *)
(* behaviour opens one and stays on it.                                    *)
(***************************************************************************)
EXTENDS Approval, GraphScreen, Screens, DataGraph, PlainAnswer, Router, Motion

VARIABLE page    \* the document that is open

pagesVars == <<page, approvalVars, graphVars, screensVars, dataGraphVars,
               plainAnswerVars, routerVars, motionVars>>

PagesInit ==
    /\ page \in {"team", "traces", "front end", "data graph", "answer", "role", "landing"}
    /\ ApprovalInit /\ GraphInit /\ ScreensInit /\ DataGraphInit
    /\ PlainAnswerInit /\ RouterInit
    /\ MotionInit /\ (page # "landing" => reduced /\ seen = 0)

PagesNext ==
    /\ UNCHANGED page
    /\ \/ /\ page = "team" /\ ApprovalNext
          /\ UNCHANGED <<graphVars, screensVars, dataGraphVars, plainAnswerVars,
                         routerVars, motionVars>>
       \/ /\ page = "traces" /\ GraphNext
          /\ UNCHANGED <<approvalVars, screensVars, dataGraphVars, plainAnswerVars,
                         routerVars, motionVars>>
       \/ /\ page = "front end" /\ ScreensNext
          /\ UNCHANGED <<approvalVars, graphVars, dataGraphVars, plainAnswerVars,
                         routerVars, motionVars>>
       \/ /\ page = "data graph" /\ DataGraphNext
          /\ UNCHANGED <<approvalVars, graphVars, screensVars, plainAnswerVars,
                         routerVars, motionVars>>
       \/ /\ page = "answer" /\ PlainAnswerNext
          /\ UNCHANGED <<approvalVars, graphVars, screensVars, dataGraphVars,
                         routerVars, motionVars>>
       \/ /\ page = "role" /\ RouterNext
          /\ UNCHANGED <<approvalVars, graphVars, screensVars, dataGraphVars,
                         plainAnswerVars, motionVars>>
       \/ /\ page = "landing" /\ MotionNext
          /\ UNCHANGED <<approvalVars, graphVars, screensVars, dataGraphVars, plainAnswerVars,
                         routerVars>>

\* The fairness of Approval and of Motion, for the page that is open.
TeamFairness ==
    /\ WF_approvalVars(page = "team" /\ AnyAnswer /\ UNCHANGED <<open, raised, holdVars, bodyVars>>)
    /\ WF_approvalVars(page = "team" /\ Pass)
    /\ \A s \in Sheet : WF_approvalVars(page = "team" /\ Complete(s))

LandingFairness ==
    /\ WF_motionVars(page = "landing" /\ Timers) /\ WF_motionVars(page = "landing" /\ Sweep)
    /\ \A f \in Figure : WF_motionVars(page = "landing" /\ Count(f))

PagesSpec == PagesInit /\ [][PagesNext]_pagesVars /\ TeamFairness /\ LandingFairness

\* Every page's state has the shape its module gives it.
PagesTypeOK ==
    /\ ApprovalTypeOK /\ GraphTypeOK /\ ScreensTypeOK /\ DataGraphTypeOK
    /\ PlainAnswerTypeOK /\ RouterTypeOK /\ MotionTypeOK
=============================================================================
