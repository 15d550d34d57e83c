------------------------------- MODULE Program -------------------------------
(***************************************************************************)
(* How a program runs, without any instrumentation: its threads, each with *)
(* the frames of its call stack, each frame at an instruction, and how     *)
(* often the program has entered each block, taken each edge and made each *)
(* call.  This is the semantics of LLVM IR as far as control goes; what a  *)
(* branch decides, what an external function does with the functions it is *)
(* given, and when the process dies is open.                               *)
(***************************************************************************)
EXTENDS LlvmModule

CONSTANT Modules

VARIABLES module,
          threads,  \* stacks of pointers to instructions, the first that of main;
                    \* below the top frame they are calls
          status,
          entered,  \* block -> entries
          taken,    \* edge of the control-flow graph -> traversals
          called    \* pointer to a call -> calls of a function with a body

programVars == <<module, threads, status, entered, taken, called>>

Start(f) == <<<<EntryBlock(module, f), 1>>>>
Entered(b) == [entered EXCEPT ![b] = @ + 1]

Init ==
  /\ module \in Modules
  /\ threads = <<Start(1)>>
  /\ status = "running"
  /\ entered = [b \in Blocks(module) |-> IF b = EntryBlock(module, 1) THEN 1 ELSE 0]
  /\ taken = [e \in CfgEdges(module) |-> 0]
  /\ called = [p \in Pointers(module) |-> 0]

At(t) == Last(threads[t])
Here(t) == Instr(module, At(t))
SetStack(t, stack) == threads' = [threads EXCEPT ![t] = stack]

\* Thread t keeps the frames below; the frame above them leaves block b by
\* successor k.
Follow(t, below, b, k) ==
  LET c == Successors(module, b)[k] IN
    /\ SetStack(t, Append(below, <<c, 1>>))
    /\ entered' = Entered(c)
    /\ taken' = [taken EXCEPT ![<<b, k>>] = @ + 1]
    /\ UNCHANGED <<status, called>>

\* The call at the top of a stack has come back.
Resume(t, stack) ==
  LET p == Last(stack) IN
    IF Instr(module, p).op = "invoke" THEN Follow(t, Front(stack), p[1], 1)
    ELSE /\ SetStack(t, Append(Front(stack), <<p[1], p[2] + 1>>))
         /\ UNCHANGED <<status, entered, taken, called>>

Stop(how) == status' = how /\ UNCHANGED <<threads, entered, taken, called>>

Straight(t) ==
  /\ Here(t).op \in {"phi", "landingpad", "other"}
  /\ SetStack(t, Append(Front(threads[t]), <<At(t)[1], At(t)[2] + 1>>))
  /\ UNCHANGED <<status, entered, taken, called>>

Branch(t) ==
  /\ Here(t).op \in {"br", "switch"}
  /\ \E k \in DOMAIN Successors(module, At(t)[1]) :
       Follow(t, Front(threads[t]), At(t)[1], k)

CallFunction(t) ==
  /\ IsCall(Here(t))
  /\ \E f \in Callees(module, Here(t)) :
       /\ SetStack(t, threads[t] \o Start(f))
       /\ entered' = Entered(EntryBlock(module, f))
       /\ called' = [called EXCEPT ![At(t)] = @ + 1]
  /\ UNCHANGED <<status, taken>>

\* An external function calls one it has been given, here or in a new thread.
CallBack(t) ==
  /\ \E f \in Handed(module, Here(t)) :
       /\ \/ SetStack(t, threads[t] \o Start(f))
          \/ threads' = Append(threads, Start(f))
       /\ entered' = Entered(EntryBlock(module, f))
  /\ UNCHANGED <<status, taken, called>>

\* It returns, ends the process with or without flushing its streams, or throws
\* to the nearest invoke on the stack.
CallExternal(t) ==
  /\ IsCall(Here(t)) /\ ~ IsDirectCall(module, Here(t))
  /\ \/ Resume(t, threads[t])
     \/ \E how \in {"exited", "quit"} : Stop(how)
     \/ LET handlers == {n \in DOMAIN threads[t] : Instr(module, threads[t][n]).op = "invoke"} IN
          IF handlers = {} THEN Stop("crashed")
          ELSE Follow(t, SubSeq(threads[t], 1, Max(handlers) - 1),
                      threads[t][Max(handlers)][1], 2)

\* From main, from the function a thread was started with, into an external
\* function that has called back, or to a call.
Return(t) ==
  /\ Here(t).op = "ret"
  /\ LET below == Front(threads[t]) IN
       CASE below = <<>> /\ t = 1 -> Stop("exited")
         [] below = <<>> /\ t # 1 ->
              SetStack(t, <<>>) /\ UNCHANGED <<status, entered, taken, called>>
         [] below # <<>> /\ IsExternalCall(module, Instr(module, Last(below))) ->
              SetStack(t, below) /\ UNCHANGED <<status, entered, taken, called>>
         [] OTHER -> Resume(t, below)

Crash == Stop("crashed")

Next ==
  /\ status = "running"
  /\ \/ \E t \in {u \in DOMAIN threads : threads[u] # <<>>} :
          \/ Straight(t) \/ Branch(t) \/ CallFunction(t)
          \/ CallBack(t) \/ CallExternal(t) \/ Return(t)
     \/ Crash
  /\ UNCHANGED module

Spec == Init /\ [][Next]_programVars

==============================================================================
