----------------------------- MODULE LoggerMock -----------------------------
(***************************************************************************)
(* LoggerMock and DisableLogs replace rcutils' one output handler while    *)
(* they exist, each saving the handler it found and putting it back; the   *)
(* SingleInstance base allows one object of each class.  Threads of the    *)
(* node under test log at any time: a log call reads the handler, and      *)
(* logHandler reads LoggerMock::instance_ twice, once to test it and once  *)
(* to call through it.                                                     *)
(*                                                                         *)
(* JoinedThreads describes the test: no thread is inside a log call while  *)
(* an object is destroyed.  lifo records whether the test has destroyed    *)
(* its objects in the reverse of their creation order so far, as C++       *)
(* scopes do and members held by pointer need not.                         *)
(***************************************************************************)
EXTENDS Integers, Sequences, FiniteSets

CONSTANTS
  Threads,       \* threads of the node that log
  MaxMocks,      \* bound: LoggerMock objects constructed in a behaviour
  None,          \* nullptr
  JoinedThreads

Mocks    == 1 .. MaxMocks
Classes  == {"LoggerMock", "DisableLogs"}
Handlers == {"default", "logHandler", "none"}

ASSUME BoundAssumption == MaxMocks \in Nat /\ None \notin Mocks
ASSUME DisciplineAssumption == JoinedThreads \in BOOLEAN

VARIABLES
  handler,    \* rcutils' output handler
  instance_,  \* LoggerMock::instance_
  flag,       \* SingleInstance<T>::instanceCreated_
  saved,      \* orig_log_handler_ of the object of each class
  step,       \* where the test thread is: "idle", "ctor" or "dtor" of a LoggerMock
  made,       \* LoggerMock objects constructed so far
  memory,     \* the ones not destroyed
  scopes,     \* history: the classes of the existing objects, oldest first
  lifo,       \* history: every object destroyed so far was the newest one
  pc,         \* where each thread is in a log call
  held        \* the object a thread is about to call

vars == <<handler, instance_, flag, saved, step, made, memory, scopes, lifo, pc, held>>
testVars == <<handler, instance_, flag, saved, step, made, memory, scopes, lifo>>

Init ==
  /\ handler = "default"
  /\ instance_ = None
  /\ flag = [c \in Classes |-> FALSE]
  /\ saved = [c \in Classes |-> "default"]
  /\ step = "idle"
  /\ made = 0
  /\ memory = {}
  /\ scopes = <<>>
  /\ lifo = TRUE
  /\ pc = [t \in Threads |-> "idle"]
  /\ held = [t \in Threads |-> None]

-----------------------------------------------------------------------------
(***************************************************************************)
(* The test.                                                               *)
(***************************************************************************)

(* The output handler is saved in the object and replaced.                 *)
Install(c, h) ==
  /\ saved' = [saved EXCEPT ![c] = handler]
  /\ handler' = h
  /\ scopes' = Append(scopes, c)
  /\ UNCHANGED lifo

(* The history without the object of class c, wherever it was.             *)
Without(s, c) ==
  LET i == CHOOSE i \in 1 .. Len(s) : s[i] = c
  IN  [j \in 1 .. Len(s) - 1 |-> IF j < i THEN s[j] ELSE s[j + 1]]

(* Mutant: the destructor puts the default handler back.                   *)
Restore_Default(c) ==
  /\ handler' = "default"
  /\ scopes' = Without(scopes, c)
  /\ lifo' = (lifo /\ scopes[Len(scopes)] = c)

Restore(c) ==
  /\ handler' = saved[c]
  /\ scopes' = Without(scopes, c)
  /\ lifo' = (lifo /\ scopes[Len(scopes)] = c)

(* When the test may destroy its object of class c.                        *)
MayDestroy(c) ==
  /\ step = "idle" /\ flag[c]
  /\ JoinedThreads => \A t \in Threads : pc[t] = "idle"

(* test_and_set of the base class's constructor; a second object throws    *)
(* before its own constructor body runs.                                   *)
MayCreate(c) == ~flag[c]

(* LoggerMock::LoggerMock publishes the object, then takes the handler.    *)
BeginLoggerMock ==
  /\ step = "idle" /\ MayCreate("LoggerMock") /\ made < MaxMocks
  /\ flag' = [flag EXCEPT !["LoggerMock"] = TRUE]
  /\ made' = made + 1
  /\ memory' = memory \cup {made + 1}
  /\ instance_' = made + 1
  /\ step' = "ctor"
  /\ UNCHANGED <<handler, saved, scopes, lifo, pc, held>>

EndLoggerMock ==
  /\ step = "ctor"
  /\ Install("LoggerMock", "logHandler")
  /\ step' = "idle"
  /\ UNCHANGED <<instance_, flag, made, memory, pc, held>>

(* Mutant: the destructor leaves instance_ pointing to the object.         *)
BeginDestroyLoggerMock_Dangling ==
  /\ MayDestroy("LoggerMock")
  /\ step' = "dtor"
  /\ UNCHANGED <<handler, instance_, flag, saved, made, memory, scopes, lifo, pc, held>>

(* LoggerMock::~LoggerMock clears instance_, then puts the handler back;   *)
(* then the base class frees the flag and the object is gone.              *)
BeginDestroyLoggerMock ==
  /\ MayDestroy("LoggerMock")
  /\ instance_' = None
  /\ step' = "dtor"
  /\ UNCHANGED <<handler, flag, saved, made, memory, scopes, lifo, pc, held>>

EndDestroyLoggerMock ==
  /\ step = "dtor"
  /\ Restore("LoggerMock")
  /\ flag' = [flag EXCEPT !["LoggerMock"] = FALSE]
  /\ memory' = memory \ {made}
  /\ step' = "idle"
  /\ UNCHANGED <<instance_, saved, made, pc, held>>

CreateDisableLogs ==
  /\ step = "idle" /\ MayCreate("DisableLogs")
  /\ flag' = [flag EXCEPT !["DisableLogs"] = TRUE]
  /\ Install("DisableLogs", "none")
  /\ UNCHANGED <<instance_, step, made, memory, pc, held>>

DestroyDisableLogs ==
  /\ MayDestroy("DisableLogs")
  /\ Restore("DisableLogs")
  /\ flag' = [flag EXCEPT !["DisableLogs"] = FALSE]
  /\ UNCHANGED <<instance_, saved, step, made, memory, pc, held>>

-----------------------------------------------------------------------------
(***************************************************************************)
(* A thread of the node logs.                                              *)
(***************************************************************************)
Goto(t, l) == pc' = [pc EXCEPT ![t] = l]

(* rcutils calls the handler it finds; another one than logHandler prints  *)
(* the message or drops it (external).                                     *)
Log(t) ==
  /\ pc[t] = "idle"
  /\ handler = "logHandler"
  /\ JoinedThreads => step # "dtor"
  /\ Goto(t, "test")
  /\ UNCHANGED <<testVars, held>>

(* Mutant: logHandler does not test instance_.                             *)
TestInstance_Dropped(t) == pc[t] = "test" /\ Goto(t, "format") /\ UNCHANGED <<testVars, held>>

(* logHandler: if (LoggerMock::instance_ != nullptr).                      *)
TestInstance(t) ==
  /\ pc[t] = "test"
  /\ Goto(t, IF instance_ = None THEN "idle" ELSE "format")
  /\ UNCHANGED <<testVars, held>>

(* The message is formatted into a string: an empty one is dropped, and    *)
(* where vsnprintf fails the length -1 is a huge size_t and resize throws  *)
(* into the logging thread; either way the mock sees nothing.              *)
Format(t) ==
  /\ pc[t] = "format"
  /\ \E len \in {-1, 0, 1} : Goto(t, IF len > 0 THEN "read" ELSE "idle")
  /\ UNCHANGED <<testVars, held>>

(* LoggerMock::instance_->log(...): the pointer is read again ...          *)
ReadInstance(t) ==
  /\ pc[t] = "read"
  /\ held' = [held EXCEPT ![t] = instance_]
  /\ Goto(t, "call")
  /\ UNCHANGED testVars

(* ... and called through.                                                 *)
CallMock(t) ==
  /\ pc[t] = "call"
  /\ held' = [held EXCEPT ![t] = None]
  /\ Goto(t, "idle")
  /\ UNCHANGED testVars

Next ==
  \/ BeginLoggerMock \/ EndLoggerMock \/ BeginDestroyLoggerMock \/ EndDestroyLoggerMock
  \/ CreateDisableLogs \/ DestroyDisableLogs
  \/ \E t \in Threads : Log(t) \/ TestInstance(t) \/ Format(t) \/ ReadInstance(t) \/ CallMock(t)

Spec == Init /\ [][Next]_vars

-----------------------------------------------------------------------------
(***************************************************************************)
(* Properties.                                                             *)
(***************************************************************************)

(* Every variable has its type; SingleInstance keeps at most one LoggerMock *)
(* alive and instance_ never points to a destroyed one.                     *)
TypeOK ==
  /\ handler \in Handlers
  /\ flag \in [Classes -> BOOLEAN] /\ saved \in [Classes -> Handlers]
  /\ step \in {"idle", "ctor", "dtor"} /\ made \in 0 .. MaxMocks
  /\ memory \subseteq Mocks /\ instance_ \in memory \cup {None} /\ Cardinality(memory) <= 1
  /\ pc \in [Threads -> {"idle", "test", "format", "read", "call"}]
  /\ held \in [Threads -> Mocks \cup {None}]

HandlerOf(c) == IF c = "LoggerMock" THEN "logHandler" ELSE "none"

(* As long as the test destroyed its objects newest first, the handler in   *)
(* force is that of the newest one that exists, and the original one when   *)
(* there is none; out of order a destructor puts back a handler whose       *)
(* object is gone.                                                          *)
InnermostInForce ==
  lifo => handler = IF scopes = <<>> THEN "default" ELSE HandlerOf(scopes[Len(scopes)])

(* A thread calls log() only on a LoggerMock that exists, even when         *)
(* unordered destruction left logHandler installed after the last one.      *)
(* Needs JoinedThreads.                                                     *)
NoCallOnDestroyed == \A t \in Threads : pc[t] = "call" => held[t] \in memory

=============================================================================
