----------------------------- MODULE WorldServer -----------------------------
(***************************************************************************)
(* Parts around the server that stand alone: the dashboard, whose badge,   *)
(* notices and pages share no state but the rows, and the monitor command. *)
(* Each has its constants and variables here, and its properties for the   *)
(* behaviours in which world names them; MCServer runs them in small       *)
(* worlds, and WorldProofs is about all values of the constants.           *)
(***************************************************************************)
EXTENDS Integers

CONSTANTS
  Runs, Roots, Editable, Queries, defaultRunsPage, maxRunsPage, Notifiers,
  maxEnvNoticesPerStep, MaxBoardTime, MaxWrites,
  Watched, Kinds, MaxChanges, MaxPolls

VARIABLES
  world,
  now, writes, run, root, slot, patch, deleting, rewrites, rewriting, walk,
  steady, unread, notices, notifier, stepped,
  sessions, up, changes, pos, polls, seen, last, terminal, bad, lines, fresh, code

Dash == INSTANCE Board WITH MaxTime <- MaxBoardTime
ASSUME DashAssumption == Dash!BoardAssumption

Watch == INSTANCE Monitor WITH Runs <- Watched, world <- sessions
ASSUME WatchAssumption == Watch!MonitorAssumption

-----------------------------------------------------------------------------
\* Board: the badge is shown until what is new was seen, and only then goes.
BadgeUntilSeen == world = "badge" => Dash!BadgeUntilSeen

\* Board: concurrent notifiers exceed the cap of a step by no more than one
\* each.
NoticesBounded == world = "notify" => Dash!NoticesBounded

\* Board: a client that follows the cursor sees every run that matched all the
\* while, whatever starts, ends, is edited or deleted between its pages.
PagesCover == world = "pages" => Dash!PagesCover

\* Monitor: the printed lines tell the exit code the monitor ends with.
LinesTellTheExit == world = "watch" => Watch!LinesTellTheExit
=============================================================================
