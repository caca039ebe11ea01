----------------------------- MODULE QueueServers ---------------------------
(***************************************************************************)
(* The servers of lab07 that talk over message queues: the chat, whose     *)
(* module this extends, and the saving server with variables of its own    *)
(* where the names meet.  The programs never run against each other: in    *)
(* the behaviours of SaveFairSpec nobody chats.                            *)
(***************************************************************************)
EXTENDS ChatServer

CONSTANTS CLIENTS, MAX_FILE_LENGTH, LENGTHS, PRIO_MAX

ASSUME SaveAssumption ==
  CLIENTS \in Nat /\ MAX_FILE_LENGTH \in Nat /\ LENGTHS \subseteq Nat /\ PRIO_MAX \in Nat

VARIABLES
  variant, length, save_server, save_message, size, saved, registered, notified, save_queue,
  client, answer_from_serwer, pending, interrupted

Save == INSTANCE SaveServer WITH
          server <- save_server, message <- save_message, queue <- save_queue

allVars == <<vars, Save!vars>>

InSave(A) == A /\ UNCHANGED vars

\* The saving server by itself, under the fairness of SaveServer.
SaveFairSpec ==
  /\ Init /\ Save!Init /\ [][InSave(Save!Next)]_allVars
  /\ WF_allVars(InSave(Save!server_main))
  /\ \A c \in Save!Senders : WF_allVars(InSave(Save!client_main(c)))

-----------------------------------------------------------------------------
\* SaveServer's properties; what they leave out is said there.

\* Who is told that its message is saved finds it in the file, and the file keeps
\* its limit.
SavedIsWritten == Save!SavedIsWritten

\* A client that has sent its message ends, but for three named cases.
ClientEnds == Save!ClientEnds

=============================================================================
