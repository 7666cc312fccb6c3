---------------------------- MODULE WorkspaceTasks ----------------------------
(***************************************************************************)
(* The boards, tasks, comments and pages of one organization, as Workspace-*)
(* Service keeps them.  A task that is completed, and a comment, are posted*)
(* to the activity channel after the row is written, without waiting.      *)
(***************************************************************************)
EXTENDS Naturals, FiniteSets

CONSTANTS
    Board,          \* rows of workspace_boards
    DefaultBoard,   \* the board with the slug team-tasks
    Task,           \* rows of workspace_tasks
    Comment,        \* rows of workspace_task_comments
    WikiPage,       \* rows of workspace_pages
    DefaultPage,    \* the page with the slug team-notes
    Errand,         \* bound: updates of tasks and comments, each made once
    Nil,            \* no row, no board, nothing sent
    Unset           \* a board that is sent as null

\* Statuses are free text that is trimmed when it is stored: DONE may come
\* with blanks around it.
SentStatus == {"TODO", "DONE", " DONE "}
Trimmed(status) == IF status = " DONE " THEN "DONE" ELSE status

TaskRow == [board : Board \cup {Nil}, status : {"TODO", "DONE"}]

ASSUME TasksAssumption ==
    /\ DefaultBoard \in Board /\ DefaultPage \in WikiPage
    /\ Nil \notin Board \cup Task \cup Comment \cup Errand \cup SentStatus \cup TaskRow
    /\ Unset \notin Board \cup {Nil}
    /\ IsFiniteSet(Errand)

VARIABLES
    board,      \* the boards there are
    task,       \* workspace_tasks
    comment,    \* workspace_task_comments: the task of each
    page,       \* the pages there are
    errand,     \* requests between two statements
    turned,     \* history: how often an update made a task DONE
    announced,  \* history: how often that was posted, or lost
    tangled     \* history: tasks of updates that overlapped, or that were
                \* deleted and made anew, or completed with blanks
taskVars == <<board, task, comment, page, errand, turned, announced, tangled>>

UpdateWorkspaceTaskDto == [board : Board \cup {Nil, Unset}, status : SentStatus \cup {Nil}]

\* A request: the statement it is about to make, its task, what was sent and
\* the status it read.
ErrandRow == [next : {"new", "write", "comment", "completed", "commented", "over", "failed"},
              task : Task \cup {Nil}, sent : UpdateWorkspaceTaskDto,
              seen : {"TODO", "DONE"}]

NewErrand == [next |-> "new", task |-> Nil, sent |-> [board |-> Nil, status |-> Nil],
              seen |-> "TODO"]

Tasks == {t \in Task : task[t] # Nil}
Pending(t) == {e \in Errand : errand[e].task = t /\ errand[e].next \in {"write", "completed"}}

TasksTypeOK ==
    /\ board \subseteq Board /\ page \subseteq WikiPage
    /\ task \in [Task -> TaskRow \cup {Nil}]
    /\ \A t \in Tasks : task[t].board \in board \cup {Nil}
    /\ comment \in [Comment -> Tasks \cup {Nil}]
    /\ errand \in [Errand -> ErrandRow]
    /\ turned \in [Task -> 0 .. Cardinality(Errand)]
    /\ announced \in [Task -> 0 .. Cardinality(Errand)]
    /\ tangled \subseteq Task

TasksInit ==
    /\ board = {} /\ page = {}
    /\ task = [t \in Task |-> Nil]
    /\ comment = [k \in Comment |-> Nil]
    /\ errand = [e \in Errand |-> NewErrand]
    /\ turned = [t \in Task |-> 0] /\ announced = [t \in Task |-> 0]
    /\ tangled = {}
-----------------------------------------------------------------------------
history == <<turned, announced, tangled>>

\* The default board is looked for, and inserted if nobody else does, when
\* the boards are listed.
listBoards ==
    /\ board' = board \cup {DefaultBoard}
    /\ UNCHANGED <<task, comment, page, errand, history>>

createBoard(b) ==
    /\ b \notin board \cup {DefaultBoard}
    /\ board' = board \cup {b}
    /\ UNCHANGED <<task, comment, page, errand, history>>

\* The tasks of a board stay, without a board.
deleteBoard(b) ==
    /\ b \in board
    /\ board' = board \ {b}
    /\ task' = [t \in Task |-> IF t \in Tasks /\ task[t].board = b
                               THEN [task[t] EXCEPT !.board = Nil] ELSE task[t]]
    /\ UNCHANGED <<comment, page, errand, history>>

listPages ==
    /\ page' = page \cup {DefaultPage}
    /\ UNCHANGED <<board, task, comment, errand, history>>

createPage(p) ==
    /\ p \notin page \cup {DefaultPage}
    /\ page' = page \cup {p}
    /\ UNCHANGED <<board, task, comment, errand, history>>

deletePage(p) ==
    /\ p \in page
    /\ page' = page \ {p}
    /\ UNCHANGED <<board, task, comment, errand, history>>
-----------------------------------------------------------------------------
\* The id of a row is never used again: not while a request has it in hand.
createTask(t, row) ==
    /\ task[t] = Nil /\ \A e \in Errand : errand[e].task # t
    /\ row.board \in board \cup {Nil}
    /\ task' = [task EXCEPT ![t] = row]
    /\ UNCHANGED <<board, comment, page, errand, history>>

\* The comments of a task go with it.
deleteTask(t) ==
    /\ t \in Tasks
    /\ task' = [task EXCEPT ![t] = Nil]
    /\ comment' = [k \in Comment |-> IF comment[k] = t THEN Nil ELSE comment[k]]
    /\ tangled' = tangled \cup {t}
    /\ UNCHANGED <<board, page, errand, turned, announced>>

\* Nothing is kept of a request that is over.
Moves(e, next) ==
    errand' = [errand EXCEPT ![e] =
                 IF next \in {"over", "failed"} THEN [NewErrand EXCEPT !.next = next]
                                                ELSE [@ EXCEPT !.next = next]]

(***************************************************************************)
(* updateTask: read the task, and the board that was sent; then update, if *)
(* the rows are still there; then post.                                    *)
(***************************************************************************)
updateTask(e, t, sent) ==
    /\ errand[e].next = "new"
    /\ t \in Tasks /\ sent.board \in board \cup {Nil, Unset}
    /\ errand' = [errand EXCEPT ![e] = [next |-> "write", task |-> t, sent |-> sent,
                                        seen |-> task[t].status]]
    /\ tangled' = IF Pending(t) # {} THEN tangled \cup {t} ELSE tangled
    /\ UNCHANGED <<board, task, comment, page, turned, announced>>

\* Fields that were not sent stay.
UpdatedTask(row, sent) ==
    [board |-> IF sent.board = Nil THEN row.board
               ELSE IF sent.board = Unset THEN Nil ELSE sent.board,
     status |-> IF sent.status = Nil THEN row.status ELSE Trimmed(sent.status)]

\* Mutant: the status the task had is not looked at.
CompletesAgain(e) == errand[e].sent.status = "DONE"

Completes(e) == errand[e].sent.status = "DONE" /\ errand[e].seen # "DONE"

\* An update of a task that was deleted finds no row: what it would post has
\* no title, and the request fails.
WriteTask(e) ==
    LET t == errand[e].task
        sent == errand[e].sent IN
    /\ errand[e].next = "write"
    /\ IF t \notin Tasks
       THEN /\ Moves(e, IF Completes(e) THEN "failed" ELSE "over")
            /\ UNCHANGED <<task, turned, tangled>>
       ELSE IF sent.board \notin board \cup {Nil, Unset}
       THEN Moves(e, "failed") /\ UNCHANGED <<task, turned, tangled>>
       ELSE /\ task' = [task EXCEPT ![t] = UpdatedTask(@, sent)]
            /\ Moves(e, IF Completes(e) THEN "completed" ELSE "over")
            /\ turned' = IF task[t].status # "DONE" /\ task'[t].status = "DONE"
                         THEN [turned EXCEPT ![t] = @ + 1] ELSE turned
            /\ tangled' = IF sent.status = " DONE " THEN tangled \cup {t} ELSE tangled
    /\ UNCHANGED <<board, comment, page, announced>>

createTaskComment(e, t) ==
    /\ errand[e].next = "new" /\ t \in Tasks
    /\ errand' = [errand EXCEPT ![e].next = "comment", ![e].task = t]
    /\ UNCHANGED <<board, task, comment, page, history>>

InsertComment(e) ==
    LET t == errand[e].task IN
    /\ errand[e].next = "comment"
    /\ IF t \notin Tasks THEN Moves(e, "failed") /\ UNCHANGED comment
       ELSE \E k \in Comment : /\ comment[k] = Nil
                               /\ comment' = [comment EXCEPT ![k] = t]
                               /\ Moves(e, "commented")
    /\ UNCHANGED <<board, task, page, history>>

deleteTaskComment(k) ==
    /\ comment[k] # Nil
    /\ comment' = [comment EXCEPT ![k] = Nil]
    /\ UNCHANGED <<board, task, page, errand, history>>

\* postActivity, of which WorkspaceChannels tells whether it succeeds.
Announce(e) ==
    /\ errand[e].next \in {"completed", "commented"}
    /\ announced' = IF errand[e].next = "completed"
                    THEN [announced EXCEPT ![errand[e].task] = @ + 1] ELSE announced
    /\ Moves(e, "over")
    /\ UNCHANGED <<board, task, comment, page, turned, tangled>>

TasksNext ==
    \/ listBoards \/ listPages
    \/ \E b \in Board : createBoard(b) \/ deleteBoard(b)
    \/ \E p \in WikiPage : createPage(p) \/ deletePage(p)
    \/ \E t \in Task, row \in TaskRow : createTask(t, row)
    \/ \E t \in Task : deleteTask(t)
    \/ \E k \in Comment : deleteTaskComment(k)
    \/ \E e \in Errand :
          \/ \E t \in Task, sent \in UpdateWorkspaceTaskDto : updateTask(e, t, sent)
          \/ \E t \in Task : createTaskComment(e, t)
          \/ WriteTask(e) \/ InsertComment(e) \/ Announce(e)

TasksSpec == TasksInit /\ [][TasksNext]_taskVars
-----------------------------------------------------------------------------
(***************************************************************************)
(* What the activity channel says of the tasks is what became of them: as  *)
(* long as the updates of a task do not overlap, each one that makes the   *)
(* task DONE is announced once, and no other is, however often the task is *)
(* opened again.                                                           *)
(***************************************************************************)
AnnouncedExactly ==
    \A t \in Task \ tangled :
        turned[t] = announced[t] + Cardinality({e \in Errand : errand[e].task = t
                                                   /\ errand[e].next = "completed"})
=============================================================================
