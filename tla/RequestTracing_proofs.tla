------------------------ MODULE RequestTracing_proofs ------------------------
(* Proofs of RequestTracing's properties for any stacks, tasks and ids.    *)
EXTENDS RequestTracing, FiniteSetTheorems, SequenceTheorems, WellFoundedInduction, TLAPS

USE ValuesAssumption

-----------------------------------------------------------------------------
(* Sequences.                                                              *)

\* A set of positions has a last one.
LEMMA LastExists ==
    ASSUME NEW N \in Nat, NEW S \in SUBSET (1..N), S # {}
    PROVE  \E m \in S : \A k \in S : k <= m
  <1> DEFINE T == {n \in Nat : N - n \in S}
  <1>1. T \subseteq Nat /\ T # {}
    <2>1. PICK m \in S : TRUE
      OBVIOUS
    <2>2. m \in 1..N /\ N - m \in Nat /\ N - (N - m) = m
      OBVIOUS
    <2> QED
      BY <2>2
  <1>2. PICK x \in T : \A y \in T : ~ (<<y, x>> \in OpToRel(<, Nat))
    <2> HIDE DEF T
    <2> QED
      BY <1>1, NatLessThanWellFounded, WFMin
  <1>3. \A y \in T : ~ (y < x)
    BY <1>1, <1>2 DEF OpToRel
  <1>4. x \in Nat /\ N - x \in S
    BY <1>1
  <1>5. ASSUME NEW k \in S
        PROVE  k <= N - x
    <2>1. k \in 1..N /\ N - k \in Nat /\ N - (N - k) = k
      OBVIOUS
    <2>2. N - k \in T
      BY <2>1
    <2>3. ~ (N - k < x)
      BY <1>3, <2>2
    <2> QED
      BY <1>4, <2>1, <2>3
  <1> QED
    BY <1>4, <1>5

LEMMA IsSequence ==
    ASSUME NEW F, NEW n \in Nat, NEW g \in [1..n -> F]
    PROVE  g \in Seq(F) /\ Len(g) = n
  OBVIOUS

LEMMA AppendFacts ==
    ASSUME NEW F, NEW fs \in Seq(F), NEW f \in F
    PROVE  /\ Append(fs, f) \in Seq(F)
           /\ Len(Append(fs, f)) = Len(fs) + 1
           /\ \A n \in 1..Len(fs) : Append(fs, f)[n] = fs[n]
           /\ Append(fs, f)[Len(fs) + 1] = f
  OBVIOUS

LEMMA FrontFacts ==
    ASSUME NEW F, NEW fs \in Seq(F), Len(fs) > 0
    PROVE  /\ SubSeq(fs, 1, Len(fs) - 1) \in Seq(F)
           /\ Len(SubSeq(fs, 1, Len(fs) - 1)) = Len(fs) - 1
           /\ \A n \in 1..(Len(fs) - 1) : SubSeq(fs, 1, Len(fs) - 1)[n] = fs[n]
  <1>1. PICK n \in Int : n = Len(fs) - 1
    BY LenProperties
  <1>2. \A i \in 1..n : fs[i] \in F
    BY <1>1, ElementOfSeq
  <1>3. /\ SubSeq(fs, 1, n) \in Seq(F)
        /\ Len(SubSeq(fs, 1, n)) = IF 1 <= n THEN n - 1 + 1 ELSE 0
        /\ \A i \in 1..(n - 1 + 1) : SubSeq(fs, 1, n)[i] = fs[1 + i - 1]
    BY <1>2, SubSeqProperties, Z3
  <1>4. Len(SubSeq(fs, 1, n)) = n
    BY <1>1, <1>3, LenProperties
  <1> QED
    BY <1>1, <1>3, <1>4

-----------------------------------------------------------------------------
(* Types.                                                                  *)

Kinds == {"error", "trace", "service", "access", "handlers"}

FrameType ==
    {f \in [kind : Kinds, app : App, id : Id \cup {NoId},
            old : Id \cup {NoId} \cup App \cup {NoApp}, status : Nat] :
        /\ f.kind = "trace" => f.id \in Id /\ f.old \in Id \cup {NoId}
        /\ f.kind = "service" => f.old \in App \cup {NoApp}}

ContextType == [id : Id \cup {NoId}, service : App \cup {NoApp}]

Errors == Raised \cup {"upstream", NoError}

Types ==
    /\ mode \in [Task -> {"idle", "down", "up", "raise"}]
    /\ stack \in [Task -> Seq(Layer)]
    /\ frames \in [Task -> Seq(FrameType)]
    /\ header \in [Task -> Id \cup {NoId}]
    /\ context \in [Task -> ContextType]
    /\ error \in [Task -> Errors] /\ cause \in [Task -> Errors]
    /\ \A t \in Task : /\ answer[t].status \in Nat
                       /\ DOMAIN answer[t].ids \subseteq Nat
                       /\ \A n \in DOMAIN answer[t].ids : answer[t].ids[n] \in Id \cup {NoId}
    /\ DOMAIN answer = Task
    /\ issued \in [Task -> SUBSET Id] /\ told \in [Task -> SUBSET Id]
    /\ accessed \in [Task -> SUBSET Nat]

\* What a frame keeps when the response starts.
LEMMA NotedFacts ==
    ASSUME NEW fs \in Seq(FrameType), NEW s \in Nat
    PROVE  /\ Noted(fs, s) \in Seq(FrameType) /\ Len(Noted(fs, s)) = Len(fs)
           /\ \A n \in 1..Len(fs) :
                  /\ Noted(fs, s)[n].kind = fs[n].kind /\ Noted(fs, s)[n].app = fs[n].app
                  /\ Noted(fs, s)[n].id = fs[n].id /\ Noted(fs, s)[n].old = fs[n].old
                  /\ Noted(fs, s)[n].status = IF fs[n].kind = "access" THEN s ELSE fs[n].status
  <1>1. \A n \in 1..Len(fs) : fs[n] \in FrameType
    OBVIOUS
  <1>2. \A n \in 1..Len(fs) :
            (IF fs[n].kind = "access" THEN [fs[n] EXCEPT !.status = s] ELSE fs[n]) \in FrameType
    BY <1>1 DEF FrameType
  <1>3. PICK N \in Nat : N = Len(fs) /\ DOMAIN fs = 1..N
    BY LenProperties
  <1>4. PICK g : g = Noted(fs, s)
    OBVIOUS
  <1>5. g \in [1..N -> FrameType]
    BY <1>2, <1>3, <1>4 DEF Noted
  <1>6. g \in Seq(FrameType) /\ Len(g) = N
    BY <1>5, IsSequence
  <1> QED
    BY <1>1, <1>3, <1>4, <1>6 DEF Noted, FrameType

LEMMA StartedFacts ==
    ASSUME NEW fs \in Seq(FrameType), NEW s \in Nat
    PROVE  /\ Started(fs, s).status = s
           /\ DOMAIN Started(fs, s).ids = Of(fs, "trace")
           /\ \A n \in Of(fs, "trace") : Started(fs, s).ids[n] = fs[n].id
           /\ Of(fs, "trace") \subseteq 1..Len(fs)
           /\ \A n \in Of(fs, "trace") : fs[n].id \in Id \cup {NoId}
  <1>1. DOMAIN fs = 1..Len(fs) /\ \A n \in 1..Len(fs) : fs[n] \in FrameType
    BY LenProperties, ElementOfSeq
  <1>2. Of(fs, "trace") \subseteq 1..Len(fs)
    BY <1>1 DEF Of
  <1>3. \A n \in Of(fs, "trace") : fs[n].id \in Id \cup {NoId}
    BY <1>1, <1>2 DEF FrameType
  <1>4. /\ Started(fs, s).status = s
        /\ Started(fs, s).ids = [n \in Of(fs, "trace") |-> fs[n].id]
    BY DEF Started
  <1> QED
    BY <1>2, <1>3, <1>4

-----------------------------------------------------------------------------
(* Steps.                                                                  *)

Step(t) ==
    \/ \E s \in Stack, h \in Id \cup {NoId} : Receive(t, s, h)
    \/ EnterTrace(t) \/ EnterService(t) \/ EnterAccess(t) \/ EnterOther(t)
    \/ Tells(t) \/ StartsResponse(t) \/ Returns(t) \/ Raises(t)
    \/ LeaveScope(t) \/ LeaveAccess(t) \/ LeaveHandlers(t) \/ LeaveError(t)
    \/ Finish(t)

Same(t) ==
    /\ mode'[t] = mode[t] /\ stack'[t] = stack[t] /\ frames'[t] = frames[t]
    /\ header'[t] = header[t] /\ context'[t] = context[t] /\ error'[t] = error[t]
    /\ cause'[t] = cause[t] /\ answer'[t] = answer[t] /\ issued'[t] = issued[t]
    /\ told'[t] = told[t] /\ accessed'[t] = accessed[t]

\* A step is about one task.
LEMMA OthersSame ==
    ASSUME Types, NEW t \in Task, Step(t), NEW u \in Task \ {t}
    PROVE  Same(u)
  <1> USE DEF Types, Same
  <1>1. CASE \E s \in Stack, h \in Id \cup {NoId} : Receive(t, s, h)
    BY <1>1 DEF Receive
  <1>2. CASE EnterTrace(t)
    BY <1>2 DEF EnterTrace, Push
  <1>3. CASE EnterService(t)
    BY <1>3 DEF EnterService, Push
  <1>4. CASE EnterAccess(t)
    BY <1>4 DEF EnterAccess, Push
  <1>5. CASE EnterOther(t)
    BY <1>5 DEF EnterOther, Push
  <1>6. CASE Tells(t)
    BY <1>6 DEF Tells
  <1>7. CASE StartsResponse(t)
    BY <1>7 DEF StartsResponse
  <1>8. CASE Returns(t)
    BY <1>8 DEF Returns
  <1>9. CASE Raises(t)
    BY <1>9 DEF Raises
  <1>10. CASE LeaveScope(t)
    BY <1>10 DEF LeaveScope, Pop, Reset
  <1>11. CASE LeaveAccess(t)
    BY <1>11 DEF LeaveAccess, Pop
  <1>12. CASE LeaveHandlers(t)
    BY <1>12 DEF LeaveHandlers, Pop, Sends
  <1>13. CASE LeaveError(t)
    BY <1>13 DEF LeaveError, Pop, Sends
  <1>14. CASE Finish(t)
    BY <1>14 DEF Finish
  <1> QED
    BY <1>1, <1>2, <1>3, <1>4, <1>5, <1>6, <1>7, <1>8, <1>9, <1>10, <1>11, <1>12, <1>13, <1>14
       DEF Step

LEMMA EnteringFacts ==
    ASSUME Types, NEW t \in Task, NEW kind, Entering(t, kind)
    PROVE  /\ Depth(t) \in Nat /\ Depth(t) + 1 \in 1..Len(stack[t])
           /\ NextLayer(t) \in Layer /\ NextLayer(t) = stack[t][Depth(t) + 1]
           /\ NextLayer(t).kind \in Kinds /\ NextLayer(t).app \in App
           /\ NextLayer(t).kind = kind /\ mode[t] = "down"
  <1>1. frames[t] \in Seq(FrameType) /\ stack[t] \in Seq(Layer)
    BY DEF Types
  <1>2. Depth(t) \in Nat /\ Depth(t) + 1 \in 1..Len(stack[t])
    BY <1>1, LenProperties DEF Entering, Depth
  <1>3. NextLayer(t) \in Layer
    BY <1>1, <1>2, ElementOfSeq DEF NextLayer
  <1> QED
    BY <1>2, <1>3 DEF Entering, NextLayer, Layer, Kinds

LEMMA LeavingFacts ==
    ASSUME Types, NEW t \in Task, NEW kind, Leaving(t, kind)
    PROVE  /\ Depth(t) \in 1..Len(frames[t]) /\ Depth(t) = Len(frames[t])
           /\ Top(t) \in FrameType /\ Top(t) = frames[t][Depth(t)]
           /\ Top(t).kind = kind /\ mode[t] \in {"up", "raise"}
           /\ Popped(t) \in Seq(FrameType) /\ Len(Popped(t)) = Depth(t) - 1
           /\ \A n \in 1..(Depth(t) - 1) : Popped(t)[n] = frames[t][n]
  <1>1. frames[t] \in Seq(FrameType)
    BY DEF Types
  <1>2. Depth(t) \in 1..Len(frames[t]) /\ Depth(t) = Len(frames[t])
    BY <1>1, LenProperties DEF Leaving, Depth
  <1>3. Top(t) \in FrameType
    BY <1>1, <1>2, ElementOfSeq DEF Top
  <1>4. /\ Popped(t) \in Seq(FrameType) /\ Len(Popped(t)) = Depth(t) - 1
        /\ \A n \in 1..(Depth(t) - 1) : Popped(t)[n] = frames[t][n]
    BY <1>1, <1>2, FrontFacts DEF Popped
  <1> QED
    BY <1>2, <1>3, <1>4 DEF Leaving, Top

LEMMA TypesPush ==
    ASSUME Types, NEW t \in Task, NEW kind, Entering(t, kind), NEW id \in Id \cup {NoId},
           NEW old \in Id \cup {NoId} \cup App \cup {NoApp}, NEW status \in Nat,
           kind = "trace" => id \in Id /\ old \in Id \cup {NoId},
           kind = "service" => old \in App \cup {NoApp},
           Push(t, Frame(NextLayer(t), id, old, status))
    PROVE  /\ frames' \in [Task -> Seq(FrameType)]
           /\ frames'[t] = Append(frames[t], Frame(NextLayer(t), id, old, status))
           /\ Frame(NextLayer(t), id, old, status) \in FrameType
  <1>1. PICK f \in FrameType : f = Frame(NextLayer(t), id, old, status)
    BY EnteringFacts DEF Frame, FrameType
  <1>2. Append(frames[t], f) \in Seq(FrameType)
    BY AppendFacts DEF Types
  <1>3. frames' = [frames EXCEPT ![t] = Append(@, f)]
    BY <1>1 DEF Push
  <1> QED
    BY <1>1, <1>2, <1>3 DEF Types

LEMMA TypesPop ==
    ASSUME Types, NEW t \in Task, NEW kind, Leaving(t, kind), Pop(t)
    PROVE  frames' \in [Task -> Seq(FrameType)] /\ frames'[t] = Popped(t)
  BY LeavingFacts DEF Pop, Types

\* A response that starts below the frames fs, those of the task or less.
LEMMA TypesStarts ==
    ASSUME Types, NEW t \in Task, NEW fs \in Seq(FrameType), NEW s \in Nat,
           answer' = [answer EXCEPT ![t] = Started(fs, s)],
           frames' = [frames EXCEPT ![t] = Noted(fs, s)]
    PROVE  /\ frames' \in [Task -> Seq(FrameType)] /\ frames'[t] = Noted(fs, s)
           /\ answer'[t] = Started(fs, s)
           /\ DOMAIN answer' = Task
           /\ \A u \in Task :
                  /\ answer'[u].status \in Nat
                  /\ DOMAIN answer'[u].ids \subseteq Nat
                  /\ \A n \in DOMAIN answer'[u].ids : answer'[u].ids[n] \in Id \cup {NoId}
  <1>1. PICK g \in Seq(FrameType) : g = Noted(fs, s)
    BY NotedFacts
  <1>2. frames' \in [Task -> Seq(FrameType)] /\ frames'[t] = g
    BY <1>1 DEF Types
  <1>3. answer'[t] = Started(fs, s) /\ DOMAIN answer' = Task
        /\ \A u \in Task \ {t} : answer'[u] = answer[u]
    BY DEF Types
  <1>4. Len(fs) \in Nat /\ 1..Len(fs) \subseteq Nat
    BY LenProperties
  <1>5. /\ answer'[t].status \in Nat
        /\ DOMAIN answer'[t].ids \subseteq Nat
        /\ \A n \in DOMAIN answer'[t].ids : answer'[t].ids[n] \in Id \cup {NoId}
    BY <1>3, <1>4, StartedFacts
  <1> QED
    BY <1>1, <1>2, <1>3, <1>5 DEF Types

LEMMA SendsFacts ==
    ASSUME Types, NEW t \in Task, NEW kind, Leaving(t, kind), NEW s \in Nat, Sends(t, s)
    PROVE  /\ frames' \in [Task -> Seq(FrameType)] /\ frames'[t] = Noted(Popped(t), s)
           /\ answer'[t] = Started(Popped(t), s)
           /\ DOMAIN answer' = Task
           /\ \A u \in Task :
                  /\ answer'[u].status \in Nat
                  /\ DOMAIN answer'[u].ids \subseteq Nat
                  /\ \A n \in DOMAIN answer'[u].ids : answer'[u].ids[n] \in Id \cup {NoId}
  BY LeavingFacts, TypesStarts DEF Sends

\* Setting one of the two variables of a task's context.
LEMMA IdSet ==
    ASSUME Types, NEW t \in Task, NEW id \in Id \cup {NoId},
           context' = [context EXCEPT ![t].id = id]
    PROVE  /\ context' \in [Task -> ContextType]
           /\ context'[t].id = id /\ context'[t].service = context[t].service
  <1>1. PICK c : c = [context[t] EXCEPT !.id = id]
    OBVIOUS
  <1>2. context \in [Task -> ContextType]
    BY DEF Types
  <1>3. c \in ContextType /\ c.id = id /\ c.service = context[t].service
    BY <1>1, <1>2 DEF ContextType
  <1>4. context' = [context EXCEPT ![t] = c]
    BY <1>1
  <1> QED
    BY <1>2, <1>3, <1>4

LEMMA ServiceSet ==
    ASSUME Types, NEW t \in Task, NEW app \in App \cup {NoApp},
           context' = [context EXCEPT ![t].service = app]
    PROVE  /\ context' \in [Task -> ContextType]
           /\ context'[t].service = app /\ context'[t].id = context[t].id
  <1>1. PICK c : c = [context[t] EXCEPT !.service = app]
    OBVIOUS
  <1>2. context \in [Task -> ContextType]
    BY DEF Types
  <1>3. c \in ContextType /\ c.service = app /\ c.id = context[t].id
    BY <1>1, <1>2 DEF ContextType
  <1>4. context' = [context EXCEPT ![t] = c]
    BY <1>1
  <1> QED
    BY <1>2, <1>3, <1>4

LEMMA TypesStep ==
    ASSUME Types, NEW t \in Task, Step(t)
    PROVE  Types'
  <1>1. CASE \E s \in Stack, h \in Id \cup {NoId} : Receive(t, s, h)
    BY <1>1 DEF Receive, Types, Errors, NoAnswer
  <1>2. CASE EnterTrace(t)
    <2>1. PICK id \in IF header[t] # NoId THEN {header[t]} ELSE Id \ InUse :
              /\ Push(t, Frame(NextLayer(t), id, context[t].id, 0))
              /\ context' = [context EXCEPT ![t].id = id]
              /\ issued' = [issued EXCEPT ![t] = @ \cup {id}]
      BY <1>2 DEF EnterTrace
    <2>2. id \in Id /\ context[t].id \in Id \cup {NoId} /\ Entering(t, "trace")
      BY <1>2 DEF Types, EnterTrace, ContextType
    <2>3. frames' \in [Task -> Seq(FrameType)]
      BY <2>1, <2>2, TypesPush
    <2>4. context' \in [Task -> ContextType]
      BY <2>1, <2>2, IdSet
    <2> QED
      BY <1>2, <2>1, <2>2, <2>3, <2>4 DEF EnterTrace, Types
  <1>3. CASE EnterService(t)
    <2>1. context[t].service \in App \cup {NoApp} /\ Entering(t, "service")
      BY <1>3 DEF Types, EnterService, ContextType
    <2>2. NextLayer(t).app \in App
      BY <2>1, EnteringFacts
    <2>3. frames' \in [Task -> Seq(FrameType)]
      BY <1>3, <2>1, TypesPush DEF EnterService
    <2>4. context' \in [Task -> ContextType]
      BY <1>3, <2>2, ServiceSet DEF EnterService
    <2> QED
      BY <1>3, <2>3, <2>4 DEF EnterService, Types
  <1>4. CASE EnterAccess(t)
    <2>1. frames' \in [Task -> Seq(FrameType)]
      BY <1>4, TypesPush DEF EnterAccess, ServerError
    <2> QED
      BY <1>4, <2>1 DEF EnterAccess, Types
  <1>5. CASE EnterOther(t)
    <2>1. frames' \in [Task -> Seq(FrameType)]
      BY <1>5, TypesPush DEF EnterOther
    <2> QED
      BY <1>5, <2>1 DEF EnterOther, Types
  <1>6. CASE Tells(t)
    BY <1>6 DEF Tells, Types, Carried, ContextType
  <1>7. CASE StartsResponse(t)
    <2>1. PICK s \in Status : /\ answer' = [answer EXCEPT ![t] = Started(frames[t], s)]
                             /\ frames' = [frames EXCEPT ![t] = Noted(frames[t], s)]
      BY <1>7 DEF StartsResponse, Types
    <2>2. frames[t] \in Seq(FrameType) /\ s \in Nat
      BY DEF Types
    <2> QED
      BY <1>7, <2>1, <2>2, TypesStarts DEF StartsResponse, Types
  <1>8. CASE Returns(t)
    BY <1>8 DEF Returns, Types
  <1>9. CASE Raises(t)
    BY <1>9 DEF Raises, Types, Raised, Errors, Translated, Upstream
  <1>10. CASE LeaveScope(t)
    <2>1. frames' \in [Task -> Seq(FrameType)]
      BY <1>10, TypesPop DEF LeaveScope
    <2>2. context' \in [Task -> ContextType]
      <3>1. Top(t) \in FrameType
        BY <1>10, LeavingFacts DEF LeaveScope
      <3>2. CASE Top(t).kind = "trace"
        BY <1>10, <3>1, <3>2, IdSet DEF LeaveScope, Reset, FrameType
      <3>3. CASE Top(t).kind = "service"
        BY <1>10, <3>1, <3>3, ServiceSet DEF LeaveScope, Reset, FrameType
      <3> QED
        BY <1>10, <3>2, <3>3 DEF LeaveScope, Leaving
    <2> QED
      BY <1>10, <2>1, <2>2 DEF LeaveScope, Types
  <1>11. CASE LeaveAccess(t)
    <2>1. frames' \in [Task -> Seq(FrameType)] /\ Top(t).status \in Nat
      BY <1>11, TypesPop, LeavingFacts DEF LeaveAccess, FrameType
    <2> QED
      BY <1>11, <2>1 DEF LeaveAccess, Types, Carried, ContextType
  <1>12. CASE LeaveHandlers(t)
    <2>1. Leaving(t, "handlers")
      BY <1>12 DEF LeaveHandlers
    <2>2. CASE /\ mode[t] = "raise" /\ Handles(Top(t).app, error[t])
               /\ answer[t] = NoAnswer
      <3>1. PICK s \in Answers(error[t]) : Sends(t, s)
        BY <1>12, <2>2 DEF LeaveHandlers
      <3>2. s \in Nat
        BY <2>2 DEF Answers, Handles, ServerError, UpstreamStatus, ValidationStatus
      <3> QED
        BY <1>12, <2>1, <2>2, <3>1, <3>2, SendsFacts DEF LeaveHandlers, Types
    <2>3. CASE ~ (/\ mode[t] = "raise" /\ Handles(Top(t).app, error[t])
                  /\ answer[t] = NoAnswer)
      <3>1. frames' \in [Task -> Seq(FrameType)]
        BY <1>12, <2>1, <2>3, TypesPop DEF LeaveHandlers
      <3> QED
        BY <1>12, <2>3, <3>1 DEF LeaveHandlers, Types, Errors, Raised
    <2> QED
      BY <2>2, <2>3
  <1>13. CASE LeaveError(t)
    <2>1. Leaving(t, "error")
      BY <1>13 DEF LeaveError
    <2>2. CASE Sends(t, ServerError) 
      BY <1>13, <2>1, <2>2, SendsFacts DEF LeaveError, Types, ServerError
    <2>3. CASE Pop(t) /\ UNCHANGED answer
      <3>1. frames' \in [Task -> Seq(FrameType)]
        BY <2>1, <2>3, TypesPop
      <3> QED
        BY <1>13, <2>3, <3>1 DEF LeaveError, Types
    <2> QED
      BY <1>13, <2>2, <2>3 DEF LeaveError
  <1>14. CASE Finish(t)
    BY <1>14 DEF Finish, Types
  <1> QED
    BY <1>1, <1>2, <1>3, <1>4, <1>5, <1>6, <1>7, <1>8, <1>9, <1>10, <1>11, <1>12, <1>13, <1>14
       DEF Step

-----------------------------------------------------------------------------
(* The scopes a request is in.                                             *)

\* The value x is what the last frame of a kind before position n sets.
Sets(fs, kind, none, n, x) ==
    /\ (\A m \in DOMAIN fs : m < n => fs[m].kind # kind) => x = none
    /\ \A m \in DOMAIN fs :
           /\ m < n /\ fs[m].kind = kind
           /\ \A k \in DOMAIN fs : m < k /\ k < n => fs[k].kind # kind
           => x = Value(fs[m])

\* The context c is what the frames fs make of it, and each scope among them
\* kept what the frames outside of it had made of it.
Scoped(fs, c) ==
    /\ Sets(fs, "trace", NoId, Len(fs) + 1, c.id)
    /\ Sets(fs, "service", NoApp, Len(fs) + 1, c.service)
    /\ \A n \in DOMAIN fs :
           /\ fs[n].kind = "trace" => Sets(fs, "trace", NoId, n, fs[n].old)
           /\ fs[n].kind = "service" => Sets(fs, "service", NoApp, n, fs[n].old)

\* The first N frames differ in nothing but the status noted.
Alike(fs, gs, N) ==
    \A n \in 1..N : /\ gs[n].kind = fs[n].kind /\ gs[n].app = fs[n].app
                    /\ gs[n].id = fs[n].id /\ gs[n].old = fs[n].old

LEMMA SetsAlike ==
    ASSUME NEW fs \in Seq(FrameType), NEW gs \in Seq(FrameType), NEW n \in Nat, NEW N \in Nat,
           Alike(fs, gs, N), n <= N + 1, N <= Len(fs), N <= Len(gs),
           NEW kind, NEW none, NEW x, Sets(fs, kind, none, n, x)
    PROVE  Sets(gs, kind, none, n, x)
  <1>1. DOMAIN fs = 1..Len(fs) /\ DOMAIN gs = 1..Len(gs) /\ Len(fs) \in Nat /\ Len(gs) \in Nat
    BY LenProperties
  <1>2. \A m : m \in DOMAIN gs /\ m < n <=> m \in DOMAIN fs /\ m < n
    BY <1>1
  <1>3. \A m \in DOMAIN gs : m < n => gs[m].kind = fs[m].kind /\ Value(gs[m]) = Value(fs[m])
    BY <1>1 DEF Alike, Value
  <1> QED
    BY <1>2, <1>3 DEF Sets

LEMMA ScopedAlike ==
    ASSUME NEW fs \in Seq(FrameType), NEW gs \in Seq(FrameType), NEW c,
           Len(gs) = Len(fs), Alike(fs, gs, Len(fs)), Scoped(fs, c)
    PROVE  Scoped(gs, c)
  <1>1. DOMAIN fs = 1..Len(fs) /\ DOMAIN gs = 1..Len(gs) /\ Len(fs) \in Nat
    BY LenProperties
  <1>2. \A n \in 1..(Len(fs) + 1) : \A kind, none, x :
            Sets(fs, kind, none, n, x) => Sets(gs, kind, none, n, x)
    BY <1>1, SetsAlike
  <1>3. \A n \in DOMAIN gs : gs[n].kind = fs[n].kind /\ gs[n].old = fs[n].old
    BY <1>1 DEF Alike
  <1> QED
    BY <1>1, <1>2, <1>3 DEF Scoped

LEMMA ScopedPush ==
    ASSUME NEW fs \in Seq(FrameType), NEW gs \in Seq(FrameType), NEW c, NEW d, NEW f,
           Len(gs) = Len(fs) + 1, Alike(fs, gs, Len(fs)), Scoped(fs, c), f = gs[Len(gs)],
           d.id = IF f.kind = "trace" THEN f.id ELSE c.id,
           d.service = IF f.kind = "service" THEN f.app ELSE c.service,
           f.kind = "trace" => f.old = c.id,
           f.kind = "service" => f.old = c.service
    PROVE  Scoped(gs, d)
  <1>1. PICK N \in Nat : N = Len(fs) /\ DOMAIN fs = 1..N /\ DOMAIN gs = 1..(N + 1)
    BY LenProperties
  <1>2. \A n \in 1..(N + 1) : \A kind, none, x :
            Sets(fs, kind, none, n, x) => Sets(gs, kind, none, n, x)
    BY <1>1, SetsAlike
  <1>3. \A n \in 1..N : gs[n].kind = fs[n].kind /\ gs[n].old = fs[n].old
    BY <1>1 DEF Alike
  <1>4. ASSUME NEW kind, NEW none, NEW x, NEW y, Sets(gs, kind, none, N + 1, x),
               y = IF f.kind = kind THEN Value(f) ELSE x
        PROVE  Sets(gs, kind, none, N + 2, y)
    <2>1. \A m \in DOMAIN gs : m < N + 2
      BY <1>1
    <2>2. f = gs[N + 1] /\ N + 1 \in DOMAIN gs
      BY <1>1
    <2>3. \A m \in DOMAIN gs : m < N + 1 \/ m = N + 1
      BY <1>1
    <2>4. CASE f.kind = kind
      <3>1. \A m \in DOMAIN gs : (\A k \in DOMAIN gs : m < k => gs[k].kind # kind) => m = N + 1
        BY <2>2, <2>3, <2>4, <1>1
      <3> QED
        BY <1>4, <2>1, <2>2, <2>4, <3>1 DEF Sets
    <2>5. CASE f.kind # kind
      <3>1. \A m \in DOMAIN gs : gs[m].kind = kind => m < N + 1
        BY <2>2, <2>3, <2>5
      <3> QED
        BY <1>4, <2>1, <2>5, <3>1 DEF Sets
    <2> QED
      BY <2>4, <2>5
  <1>5. /\ Sets(gs, "trace", NoId, N + 1, c.id)
        /\ Sets(gs, "service", NoApp, N + 1, c.service)
    BY <1>1, <1>2 DEF Scoped
  <1>6. /\ Sets(gs, "trace", NoId, N + 2, d.id)
        /\ Sets(gs, "service", NoApp, N + 2, d.service)
    BY <1>4, <1>5 DEF Value
  <1>7. ASSUME NEW n \in DOMAIN gs
        PROVE  /\ gs[n].kind = "trace" => Sets(gs, "trace", NoId, n, gs[n].old)
               /\ gs[n].kind = "service" => Sets(gs, "service", NoApp, n, gs[n].old)
    <2>1. CASE n \in 1..N
      BY <1>1, <1>2, <1>3, <2>1 DEF Scoped
    <2>2. CASE n = N + 1
      BY <1>1, <1>5, <2>2
    <2> QED
      BY <1>1, <2>1, <2>2
  <1> QED
    BY <1>1, <1>6, <1>7 DEF Scoped

LEMMA ScopedPop ==
    ASSUME NEW fs \in Seq(FrameType), NEW gs \in Seq(FrameType), NEW c, NEW d, NEW f,
           Len(fs) = Len(gs) + 1, Alike(fs, gs, Len(gs)), Scoped(fs, c), f = fs[Len(fs)],
           d.id = IF f.kind = "trace" THEN f.old ELSE c.id,
           d.service = IF f.kind = "service" THEN f.old ELSE c.service
    PROVE  Scoped(gs, d)
  <1>1. PICK N \in Nat : N = Len(gs) /\ DOMAIN gs = 1..N /\ DOMAIN fs = 1..(N + 1)
    BY LenProperties
  <1>2. \A n \in 1..(N + 1) : \A kind, none, x :
            Sets(fs, kind, none, n, x) => Sets(gs, kind, none, n, x)
    BY <1>1, SetsAlike
  <1>3. \A n \in 1..N : gs[n].kind = fs[n].kind /\ gs[n].old = fs[n].old
    BY <1>1 DEF Alike
  <1>4. ASSUME NEW kind, NEW none, NEW x, Sets(fs, kind, none, N + 2, x), f.kind # kind
        PROVE  Sets(fs, kind, none, N + 1, x)
    <2>1. \A m \in DOMAIN fs : m < N + 2
      BY <1>1
    <2>2. f = fs[N + 1] /\ N + 1 \in DOMAIN fs
      BY <1>1
    <2>3. \A m \in DOMAIN fs : m < N + 1 \/ m = N + 1
      BY <1>1
    <2> QED
      BY <1>4, <2>1, <2>2, <2>3 DEF Sets
  <1>5. /\ f.kind = "trace" => Sets(fs, "trace", NoId, N + 1, d.id)
        /\ f.kind = "service" => Sets(fs, "service", NoApp, N + 1, d.service)
    BY <1>1 DEF Scoped
  <1>6. /\ Sets(fs, "trace", NoId, N + 1, d.id)
        /\ Sets(fs, "service", NoApp, N + 1, d.service)
    BY <1>1, <1>4, <1>5 DEF Scoped
  <1>7. \A n \in 1..N : 
               /\ gs[n].kind = "trace" => Sets(gs, "trace", NoId, n, gs[n].old)
               /\ gs[n].kind = "service" => Sets(gs, "service", NoApp, n, gs[n].old)
    BY <1>1, <1>2, <1>3 DEF Scoped
  <1> QED
    BY <1>1, <1>2, <1>6, <1>7 DEF Scoped

\* What Scoped says of the context is what ContextFollowsScopes says.
LEMMA SetsInScope ==
    ASSUME NEW fs \in Seq(FrameType), NEW kind, NEW none, NEW x,
           Sets(fs, kind, none, Len(fs) + 1, x)
    PROVE  x = InScope(fs, kind, none)
  <1>1. PICK N \in Nat : N = Len(fs) /\ DOMAIN fs = 1..N
    BY LenProperties
  <1>2. CASE Of(fs, kind) = {}
    BY <1>1, <1>2 DEF Of, InScope, Sets
  <1>3. CASE Of(fs, kind) # {}
    <2>1. PICK S \in SUBSET (1..N) : S = Of(fs, kind)
      BY <1>1 DEF Of
    <2>2. \E m \in S : \A k \in S : k <= m
      BY <1>3, <2>1, LastExists
    <2>3. PICK m : m = CHOOSE n \in S : \A k \in S : k <= n
      OBVIOUS
    <2>4. m \in S /\ \A k \in S : k <= m
      BY <2>2, <2>3
    <2>5. fs[m].kind = kind /\ m \in DOMAIN fs /\ m < N + 1
      BY <1>1, <2>1, <2>4 DEF Of
    <2>6. \A k \in DOMAIN fs : m < k => fs[k].kind # kind
      BY <1>1, <2>1, <2>4 DEF Of
    <2>7. x = Value(fs[m])
      BY <1>1, <2>5, <2>6 DEF Sets
    <2> QED
      BY <1>3, <2>1, <2>3, <2>7 DEF InScope
  <1> QED
    BY <1>2, <1>3

-----------------------------------------------------------------------------
(* What the steps of a task do to its frames.                              *)

\* A layer is entered and keeps the frame f.
Enters(t, f) ==
    /\ mode[t] = "down" /\ mode'[t] = "down"
    /\ f \in FrameType /\ frames[t] \in Seq(FrameType) /\ frames'[t] \in Seq(FrameType)
    /\ Len(frames[t]) \in Nat /\ Len(frames'[t]) = Len(frames[t]) + 1
    /\ frames'[t][Len(frames'[t])] = f
    /\ \A n \in 1..Len(frames[t]) : frames'[t][n] = frames[t][n]
    /\ Len(frames'[t]) \in 1..Len(stack[t])
    /\ f.kind = stack[t][Len(frames'[t])].kind /\ f.app = stack[t][Len(frames'[t])].app
    /\ stack'[t] = stack[t] /\ header'[t] = header[t] /\ error'[t] = error[t]
    /\ cause'[t] = cause[t] /\ answer'[t] = answer[t] /\ told'[t] = told[t]
    /\ accessed'[t] = accessed[t]

\* A layer is left, whose frame was f.
Leaves(t, f) ==
    /\ mode[t] \in {"up", "raise"}
    /\ f \in FrameType /\ frames[t] \in Seq(FrameType) /\ frames'[t] \in Seq(FrameType)
    /\ Len(frames'[t]) \in Nat /\ Len(frames[t]) = Len(frames'[t]) + 1
    /\ f = frames[t][Len(frames[t])]
    /\ Alike(frames[t], frames'[t], Len(frames'[t]))
    /\ stack'[t] = stack[t] /\ header'[t] = header[t]
    /\ cause'[t] = cause[t] /\ issued'[t] = issued[t]

\* Nothing is sent meanwhile.
Silent(t) ==
    /\ answer'[t] = answer[t]
    /\ \A n \in 1..Len(frames'[t]) : frames'[t][n].status = frames[t][n].status

\* A response starts below the frames that are left.
Sent(t, s) ==
    /\ answer'[t].status = s /\ answer'[t] # NoAnswer
    /\ DOMAIN answer'[t].ids = Of(frames'[t], "trace")
    /\ \A n \in DOMAIN answer'[t].ids : answer'[t].ids[n] = frames'[t][n].id
    /\ \A n \in 1..Len(frames'[t]) : frames'[t][n].status =
                          IF frames'[t][n].kind = "access" THEN s ELSE frames[t][n].status

LEMMA EntersFacts ==
    ASSUME Types, NEW t \in Task, NEW kind, Entering(t, kind), NEW id \in Id \cup {NoId},
           NEW old \in Id \cup {NoId} \cup App \cup {NoApp}, NEW status \in Nat,
           kind = "trace" => id \in Id /\ old \in Id \cup {NoId},
           kind = "service" => old \in App \cup {NoApp},
           Push(t, Frame(NextLayer(t), id, old, status)),
           UNCHANGED <<mode, stack, header, error, cause, answer, told, accessed>>
    PROVE  \E f : Enters(t, f) /\ f.kind = kind /\ f.id = id /\ f.old = old /\ f.status = status
  <1>1. PICK f : f = Frame(NextLayer(t), id, old, status)
    OBVIOUS
  <1>2. f \in FrameType /\ frames'[t] = Append(frames[t], f)
    BY <1>1, TypesPush
  <1>3. /\ f.kind = kind /\ f.id = id /\ f.old = old /\ f.status = status
        /\ f.kind = NextLayer(t).kind /\ f.app = NextLayer(t).app
    BY <1>1, EnteringFacts DEF Frame
  <1>4. frames[t] \in Seq(FrameType) /\ Len(frames[t]) \in Nat
    BY LenProperties DEF Types
  <1>5. /\ frames'[t] \in Seq(FrameType) /\ Len(frames'[t]) = Len(frames[t]) + 1
        /\ frames'[t][Len(frames'[t])] = f
        /\ \A n \in 1..Len(frames[t]) : frames'[t][n] = frames[t][n]
    BY <1>2, <1>4, AppendFacts
  <1>6. /\ Len(frames'[t]) \in 1..Len(stack[t]) /\ NextLayer(t) = stack[t][Len(frames'[t])]
        /\ mode[t] = "down"
    BY <1>5, EnteringFacts DEF Depth
  <1> QED
    BY <1>2, <1>3, <1>4, <1>5, <1>6 DEF Enters

LEMMA EnterTraceFacts ==
    ASSUME Types, NEW t \in Task, EnterTrace(t)
    PROVE  \E f : /\ Enters(t, f) /\ f.kind = "trace" /\ f.id \in Id /\ f.old = context[t].id
                  /\ context'[t].id = f.id /\ context'[t].service = context[t].service
                  /\ issued'[t] = issued[t] \cup {f.id}
                  /\ header[t] # NoId => f.id = header[t]
                  /\ header[t] = NoId => f.id \notin InUse
  <1>1. PICK id \in IF header[t] # NoId THEN {header[t]} ELSE Id \ InUse :
            /\ Push(t, Frame(NextLayer(t), id, context[t].id, 0))
            /\ context' = [context EXCEPT ![t].id = id]
            /\ issued' = [issued EXCEPT ![t] = @ \cup {id}]
    BY DEF EnterTrace
  <1>2. id \in Id /\ context[t].id \in Id \cup {NoId} /\ Entering(t, "trace")
    BY DEF Types, EnterTrace, ContextType
  <1>3. PICK f : Enters(t, f) /\ f.kind = "trace" /\ f.id = id /\ f.old = context[t].id
    BY <1>1, <1>2, EntersFacts DEF EnterTrace
  <1>4. context'[t].id = id /\ context'[t].service = context[t].service
    BY <1>1, <1>2, IdSet
  <1>5. issued'[t] = issued[t] \cup {id}
    BY <1>1 DEF Types
  <1> QED
    BY <1>1, <1>2, <1>3, <1>4, <1>5

LEMMA EnterServiceFacts ==
    ASSUME Types, NEW t \in Task, EnterService(t)
    PROVE  \E f : /\ Enters(t, f) /\ f.kind = "service" /\ f.old = context[t].service
                  /\ context'[t].id = context[t].id /\ context'[t].service = f.app
                  /\ issued'[t] = issued[t]
  <1>1. context[t].service \in App \cup {NoApp} /\ Entering(t, "service")
    BY DEF Types, EnterService, ContextType
  <1>2. PICK f : Enters(t, f) /\ f.kind = "service" /\ f.old = context[t].service
    BY <1>1, EntersFacts DEF EnterService
  <1>3. NextLayer(t).app \in App /\ f.app = NextLayer(t).app
    BY <1>1, <1>2, EnteringFacts DEF Enters, Depth
  <1>4. context'[t].id = context[t].id /\ context'[t].service = f.app
    BY <1>3, ServiceSet DEF EnterService
  <1> QED
    BY <1>2, <1>4 DEF EnterService

LEMMA EnterAccessFacts ==
    ASSUME Types, NEW t \in Task, EnterAccess(t)
    PROVE  \E f : /\ Enters(t, f) /\ f.kind = "access" /\ f.status = ServerError
                  /\ context'[t] = context[t] /\ issued'[t] = issued[t]
  BY EntersFacts DEF EnterAccess, ServerError

LEMMA EnterOtherFacts ==
    ASSUME Types, NEW t \in Task, EnterOther(t)
    PROVE  \E f : /\ Enters(t, f) /\ f.kind \in {"error", "handlers"}
                  /\ context'[t] = context[t] /\ issued'[t] = issued[t]
  <1>1. PICK kind \in {"error", "handlers"} : Entering(t, kind)
    BY DEF EnterOther
  <1> QED
    BY <1>1, EntersFacts DEF EnterOther

LEMMA PopFacts ==
    ASSUME Types, NEW t \in Task, NEW kind, Leaving(t, kind), Pop(t),
           UNCHANGED <<stack, header, cause, answer, issued>>
    PROVE  Leaves(t, Top(t)) /\ Silent(t) /\ Top(t).kind = kind
  <1>1. frames'[t] = Popped(t) /\ frames[t] \in Seq(FrameType)
    BY TypesPop DEF Types
  <1>2. Depth(t) = Len(frames[t]) /\ Len(frames[t]) \in Nat /\ Len(Popped(t)) \in Nat
    BY <1>1, LeavingFacts, LenProperties
  <1> QED
    BY <1>1, <1>2, LeavingFacts DEF Leaves, Silent, Alike

LEMMA SendFacts ==
    ASSUME Types, NEW t \in Task, NEW kind, Leaving(t, kind), NEW s \in Nat \ {0}, Sends(t, s),
           UNCHANGED <<stack, header, cause, issued>>
    PROVE  Leaves(t, Top(t)) /\ Sent(t, s) /\ Top(t).kind = kind
  <1>1. /\ frames[t] \in Seq(FrameType) /\ frames'[t] = Noted(Popped(t), s)
        /\ answer'[t] = Started(Popped(t), s) /\ Popped(t) \in Seq(FrameType)
    BY SendsFacts, LeavingFacts DEF Types
  <1>2. /\ Depth(t) = Len(frames[t]) /\ Len(frames[t]) \in Nat /\ Len(Popped(t)) \in Nat
        /\ Len(frames[t]) = Len(Popped(t)) + 1
        /\ \A n \in 1..Len(Popped(t)) : Popped(t)[n] = frames[t][n]
    BY <1>1, LeavingFacts, LenProperties
  <1>3. /\ frames'[t] \in Seq(FrameType) /\ Len(frames'[t]) = Len(Popped(t))
        /\ \A n \in 1..Len(Popped(t)) :
               /\ frames'[t][n].kind = frames[t][n].kind /\ frames'[t][n].app = frames[t][n].app
               /\ frames'[t][n].id = frames[t][n].id /\ frames'[t][n].old = frames[t][n].old
               /\ frames'[t][n].status =
                      IF frames[t][n].kind = "access" THEN s ELSE frames[t][n].status
    BY <1>1, <1>2, NotedFacts, LeavingFacts
  <1>4. Leaves(t, Top(t)) /\ Top(t).kind = kind
    BY <1>1, <1>2, <1>3, LeavingFacts DEF Leaves, Alike
  <1>5. Of(frames'[t], "trace") = Of(Popped(t), "trace")
    <2>1. DOMAIN frames'[t] = 1..Len(Popped(t)) /\ DOMAIN Popped(t) = 1..Len(Popped(t))
      BY <1>1, <1>3, LenProperties
    <2>2. \A n \in 1..Len(Popped(t)) : frames'[t][n].kind = Popped(t)[n].kind
      BY <1>2, <1>3
    <2> QED
      BY <2>1, <2>2 DEF Of
  <1>6. /\ answer'[t].status = s /\ DOMAIN answer'[t].ids = Of(frames'[t], "trace")
        /\ \A n \in DOMAIN answer'[t].ids : answer'[t].ids[n] = Popped(t)[n].id
        /\ Of(frames'[t], "trace") \subseteq 1..Len(Popped(t))
    BY <1>1, <1>5, StartedFacts
  <1>7. answer'[t] # NoAnswer
    BY <1>6 DEF NoAnswer
  <1>8. \A n \in 1..Len(Popped(t)) : frames'[t][n].id = Popped(t)[n].id
    BY <1>2, <1>3
  <1> QED
    BY <1>3, <1>4, <1>6, <1>7, <1>8 DEF Sent

LEMMA LeaveScopeFacts ==
    ASSUME Types, NEW t \in Task, LeaveScope(t)
    PROVE  \E f : /\ Leaves(t, f) /\ Silent(t) /\ f.kind \in {"trace", "service"}
                  /\ context'[t].id = IF f.kind = "trace" THEN f.old ELSE context[t].id
                  /\ context'[t].service = IF f.kind = "service" THEN f.old
                                           ELSE context[t].service
                  /\ mode'[t] = mode[t] /\ error'[t] = error[t] /\ told'[t] = told[t]
                  /\ accessed'[t] = accessed[t]
  <1>1. PICK kind \in {"trace", "service"} : Leaving(t, kind)
    BY DEF LeaveScope
  <1>2. Leaves(t, Top(t)) /\ Silent(t) /\ Top(t).kind = kind /\ Top(t) \in FrameType
    BY <1>1, PopFacts, LeavingFacts DEF LeaveScope
  <1>3. /\ context'[t].id = IF kind = "trace" THEN Top(t).old ELSE context[t].id
        /\ context'[t].service = IF kind = "service" THEN Top(t).old ELSE context[t].service
    <2>1. CASE kind = "trace"
      BY <1>2, <2>1, IdSet DEF LeaveScope, Reset, FrameType
    <2>2. CASE kind = "service"
      BY <1>2, <2>2, ServiceSet DEF LeaveScope, Reset, FrameType
    <2> QED
      BY <2>1, <2>2
  <1>4. mode' = mode /\ error' = error /\ told' = told /\ accessed' = accessed
    BY DEF LeaveScope
  <1> QED
    BY <1>2, <1>3, <1>4

LEMMA LeaveAccessFacts ==
    ASSUME Types, NEW t \in Task, LeaveAccess(t)
    PROVE  \E f : /\ Leaves(t, f) /\ Silent(t) /\ f.kind = "access"
                  /\ accessed'[t] = accessed[t] \cup {f.status}
                  /\ told'[t] = told[t] \cup Carried(context[t].id)
                  /\ mode'[t] = mode[t] /\ error'[t] = error[t] /\ context'[t] = context[t]
  <1>1. Leaves(t, Top(t)) /\ Silent(t) /\ Top(t).kind = "access"
    BY PopFacts DEF LeaveAccess
  <1>2. accessed'[t] = accessed[t] \cup {Top(t).status}
        /\ told'[t] = told[t] \cup Carried(context[t].id)
    BY DEF LeaveAccess, Types
  <1> QED
    BY <1>1, <1>2 DEF LeaveAccess

LEMMA LeaveHandlersFacts ==
    ASSUME Types, NEW t \in Task, LeaveHandlers(t)
    PROVE  \E f :
             /\ Leaves(t, f) /\ f.kind = "handlers"
             /\ context'[t] = context[t] /\ told'[t] = told[t] /\ accessed'[t] = accessed[t]
             /\ \/ /\ mode[t] = "raise" /\ Handles(f.app, error[t]) /\ answer[t] = NoAnswer
                   /\ \E s \in Answers(error[t]) : Sent(t, s)
                   /\ mode'[t] = "up" /\ error'[t] = error[t]
                \/ /\ mode[t] = "raise" /\ Handles(f.app, error[t]) /\ answer[t] # NoAnswer
                   /\ Silent(t) /\ mode'[t] = mode[t] /\ error'[t] = "other"
                \/ /\ mode[t] = "up" \/ ~Handles(f.app, error[t])
                   /\ Silent(t) /\ mode'[t] = mode[t] /\ error'[t] = error[t]
  <1>1. Leaving(t, "handlers") /\ UNCHANGED <<stack, header, context, cause, issued, told, accessed>>
    BY DEF LeaveHandlers
  <1>2. CASE mode[t] = "raise" /\ Handles(Top(t).app, error[t]) /\ answer[t] = NoAnswer
    <2>1. PICK s \in Answers(error[t]) : Sends(t, s)
      BY <1>2 DEF LeaveHandlers
    <2>2. s \in Nat \ {0}
      BY <1>2 DEF Answers, Handles, ServerError, UpstreamStatus, ValidationStatus
    <2>3. Leaves(t, Top(t)) /\ Sent(t, s) /\ Top(t).kind = "handlers"
      BY <1>1, <2>1, <2>2, SendFacts
    <2>4. mode'[t] = "up" /\ error'[t] = error[t]
      BY <1>2 DEF LeaveHandlers, Types
    <2> QED
      BY <1>1, <1>2, <2>3, <2>4
  <1>3. CASE mode[t] = "raise" /\ Handles(Top(t).app, error[t]) /\ answer[t] # NoAnswer
    <2>1. Pop(t) /\ UNCHANGED <<mode, answer>> /\ error' = [error EXCEPT ![t] = "other"]
      BY <1>3 DEF LeaveHandlers
    <2>2. Leaves(t, Top(t)) /\ Silent(t) /\ Top(t).kind = "handlers"
      BY <1>1, <2>1, PopFacts
    <2>3. mode'[t] = mode[t] /\ error'[t] = "other"
      BY <2>1 DEF Types
    <2> QED
      BY <1>1, <1>3, <2>2, <2>3
  <1>4. CASE mode[t] = "up" \/ ~Handles(Top(t).app, error[t])
    <2>1. Pop(t) /\ UNCHANGED <<mode, error, answer>>
      BY <1>4 DEF LeaveHandlers
    <2>2. Leaves(t, Top(t)) /\ Silent(t) /\ Top(t).kind = "handlers"
      BY <1>1, <2>1, PopFacts
    <2> QED
      BY <1>1, <1>4, <2>1, <2>2
  <1> QED
    BY <1>1, <1>2, <1>3, <1>4 DEF Leaving

LEMMA LeaveErrorFacts ==
    ASSUME Types, NEW t \in Task, LeaveError(t)
    PROVE  \E f :
             /\ Leaves(t, f) /\ f.kind = "error"
             /\ context'[t] = context[t] /\ told'[t] = told[t] /\ accessed'[t] = accessed[t]
             /\ mode'[t] = mode[t] /\ error'[t] = error[t]
             /\ IF mode[t] = "raise" /\ error[t] # "cancelled" /\ answer[t] = NoAnswer
                THEN Sent(t, ServerError)
                ELSE Silent(t)
  <1>1. Leaving(t, "error")
    BY DEF LeaveError
  <1>2. CASE mode[t] = "raise" /\ error[t] # "cancelled" /\ answer[t] = NoAnswer
    <2>1. Leaves(t, Top(t)) /\ Sent(t, ServerError) /\ Top(t).kind = "error"
      BY <1>1, <1>2, SendFacts DEF LeaveError, ServerError
    <2> QED
      BY <1>2, <2>1 DEF LeaveError
  <1>3. CASE ~(mode[t] = "raise" /\ error[t] # "cancelled" /\ answer[t] = NoAnswer)
    <2>1. Leaves(t, Top(t)) /\ Silent(t) /\ Top(t).kind = "error"
      BY <1>1, <1>3, PopFacts DEF LeaveError
    <2> QED
      BY <1>3, <2>1 DEF LeaveError
  <1> QED
    BY <1>2, <1>3

LEMMA StartsResponseFacts ==
    ASSUME Types, NEW t \in Task, StartsResponse(t)
    PROVE  /\ frames[t] \in Seq(FrameType) /\ frames'[t] \in Seq(FrameType)
           /\ Len(frames[t]) \in Nat /\ Len(frames'[t]) = Len(frames[t])
           /\ Alike(frames[t], frames'[t], Len(frames[t]))
           /\ \E s \in Status : Sent(t, s)
           /\ mode[t] = "down" /\ Len(frames[t]) = Len(stack[t]) /\ answer[t] = NoAnswer
           /\ mode' = mode /\ stack' = stack /\ header' = header /\ context' = context
           /\ error' = error /\ cause' = cause /\ issued' = issued /\ told' = told
           /\ accessed' = accessed
  <1>1. PICK s \in Status : /\ answer' = [answer EXCEPT ![t] = Started(frames[t], s)]
                           /\ frames' = [frames EXCEPT ![t] = Noted(frames[t], s)]
    BY DEF StartsResponse, Types
  <1>2. frames[t] \in Seq(FrameType) /\ s \in Nat /\ s # 0 /\ Len(frames[t]) \in Nat
    BY LenProperties DEF Types
  <1>3. frames'[t] = Noted(frames[t], s) /\ answer'[t] = Started(frames[t], s)
    BY <1>1, <1>2, TypesStarts
  <1>4. /\ frames'[t] \in Seq(FrameType) /\ Len(frames'[t]) = Len(frames[t])
        /\ Alike(frames[t], frames'[t], Len(frames[t]))
        /\ \A n \in 1..Len(frames[t]) : frames'[t][n].status =
                 IF frames[t][n].kind = "access" THEN s ELSE frames[t][n].status
    BY <1>2, <1>3, NotedFacts DEF Alike
  <1>5. Of(frames'[t], "trace") = Of(frames[t], "trace")
    <2>1. DOMAIN frames'[t] = 1..Len(frames[t]) /\ DOMAIN frames[t] = 1..Len(frames[t])
      BY <1>2, <1>4, LenProperties
    <2> QED
      BY <1>4, <2>1 DEF Of, Alike
  <1>6. /\ answer'[t].status = s /\ DOMAIN answer'[t].ids = Of(frames'[t], "trace")
        /\ \A n \in DOMAIN answer'[t].ids : answer'[t].ids[n] = frames[t][n].id
        /\ Of(frames'[t], "trace") \subseteq 1..Len(frames[t])
    BY <1>2, <1>3, <1>5, StartedFacts
  <1>7. answer'[t] # NoAnswer
    BY <1>2, <1>6 DEF NoAnswer
  <1>8. Sent(t, s)
    BY <1>4, <1>6, <1>7 DEF Sent, Alike
  <1> QED
    BY <1>2, <1>4, <1>8 DEF StartsResponse, AtEndpoint, Depth

HIDE ValuesAssumption

-----------------------------------------------------------------------------
(* The way of a request through its stack, and its context.                *)

Way(t) ==
    /\ stack[t] \in Stack \cup {<<>>}
    /\ mode[t] = "idle" => frames[t] = <<>>
    /\ Len(frames[t]) <= Len(stack[t])
    /\ \A n \in 1..Len(frames[t]) : /\ frames[t][n].kind = stack[t][n].kind
                                    /\ frames[t][n].app = stack[t][n].app
    /\ Scoped(frames[t], context[t])

LEMMA SeqLen ==
    ASSUME Types, NEW t \in Task
    PROVE  /\ frames[t] \in Seq(FrameType) /\ stack[t] \in Seq(Layer)
           /\ Len(frames[t]) \in Nat /\ Len(stack[t]) \in Nat
  BY LenProperties DEF Types

LEMMA WayOthers ==
    ASSUME NEW t, Same(t), Way(t)
    PROVE  Way(t)'
  BY DEF Same, Way

LEMMA WayEnters ==
    ASSUME Types, NEW t \in Task, NEW f, Enters(t, f), Way(t),
           context'[t].id = IF f.kind = "trace" THEN f.id ELSE context[t].id,
           context'[t].service = IF f.kind = "service" THEN f.app ELSE context[t].service,
           f.kind = "trace" => f.old = context[t].id,
           f.kind = "service" => f.old = context[t].service
    PROVE  Way(t)'
  <1>1. Alike(frames[t], frames'[t], Len(frames[t]))
    BY DEF Enters, Alike
  <1>2. Scoped(frames'[t], context'[t])
    <2>1. /\ frames[t] \in Seq(FrameType) /\ frames'[t] \in Seq(FrameType)
          /\ Len(frames'[t]) = Len(frames[t]) + 1 /\ f = frames'[t][Len(frames'[t])]
          /\ Scoped(frames[t], context[t])
      BY DEF Enters, Way
    <2> QED
      BY <1>1, <2>1, ScopedPush
  <1>3. \A n \in 1..Len(frames'[t]) : n \in 1..Len(frames[t]) \/ n = Len(frames'[t])
    BY DEF Enters
  <1>4. \A n \in 1..Len(frames'[t]) : /\ frames'[t][n].kind = stack'[t][n].kind
                                       /\ frames'[t][n].app = stack'[t][n].app
    BY <1>3 DEF Enters, Way
  <1> QED
    BY <1>2, <1>4, SeqLen DEF Enters, Way

LEMMA WayLeaves ==
    ASSUME Types, NEW t \in Task, NEW f, Leaves(t, f), Way(t), mode'[t] # "idle",
           context'[t].id = IF f.kind = "trace" THEN f.old ELSE context[t].id,
           context'[t].service = IF f.kind = "service" THEN f.old ELSE context[t].service
    PROVE  Way(t)'
  <1>1. Scoped(frames'[t], context'[t])
    <2>1. /\ frames[t] \in Seq(FrameType) /\ frames'[t] \in Seq(FrameType)
          /\ Len(frames[t]) = Len(frames'[t]) + 1 /\ f = frames[t][Len(frames[t])]
          /\ Alike(frames[t], frames'[t], Len(frames'[t]))
      BY DEF Leaves
    <2>2. Scoped(frames[t], context[t])
      BY DEF Way
    <2> QED
      BY <2>1, <2>2, ScopedPop
  <1>2. \A n \in 1..Len(frames'[t]) : /\ frames'[t][n].kind = stack'[t][n].kind
                                       /\ frames'[t][n].app = stack'[t][n].app
    BY DEF Leaves, Way, Alike
  <1> QED
    BY <1>1, <1>2, SeqLen DEF Leaves, Way

LEMMA WayStep ==
    ASSUME Types, NEW t \in Task, Way(t), Step(t)
    PROVE  Way(t)'
  <1>1. CASE \E s \in Stack, h \in Id \cup {NoId} : Receive(t, s, h)
    <2>1. frames'[t] = <<>> /\ stack'[t] \in Stack /\ context' = context /\ mode'[t] = "down"
          /\ frames' = frames
      BY <1>1 DEF Receive, Types, Way
    <2>2. Len(stack'[t]) \in Nat
      BY <2>1, LenProperties
    <2> QED
      BY <2>1, <2>2 DEF Way
  <1>2. CASE EnterTrace(t)
    BY <1>2, EnterTraceFacts, WayEnters
  <1>3. CASE EnterService(t)
    BY <1>3, EnterServiceFacts, WayEnters
  <1>4. CASE EnterAccess(t)
    BY <1>4, EnterAccessFacts, WayEnters
  <1>5. CASE EnterOther(t)
    BY <1>5, EnterOtherFacts, WayEnters
  <1>6. CASE Tells(t)
    BY <1>6 DEF Tells, Way
  <1>7. CASE StartsResponse(t)
    <2>1. Scoped(frames'[t], context'[t])
      BY <1>7, StartsResponseFacts, ScopedAlike DEF Way
    <2> QED
      BY <1>7, <2>1, StartsResponseFacts DEF Way, Alike
  <1>8. CASE Returns(t)
    BY <1>8 DEF Returns, Way, Types
  <1>9. CASE Raises(t)
    BY <1>9 DEF Raises, Way, Types
  <1>10. CASE LeaveScope(t)
    BY <1>10, LeaveScopeFacts, WayLeaves DEF Leaves
  <1>11. CASE LeaveAccess(t)
    BY <1>11, LeaveAccessFacts, WayLeaves DEF Leaves
  <1>12. CASE LeaveHandlers(t)
    BY <1>12, LeaveHandlersFacts, WayLeaves DEF Leaves
  <1>13. CASE LeaveError(t)
    BY <1>13, LeaveErrorFacts, WayLeaves DEF Leaves
  <1>14. CASE Finish(t)
    BY <1>14 DEF Finish, Way, Types
  <1> QED
    BY <1>1, <1>2, <1>3, <1>4, <1>5, <1>6, <1>7, <1>8, <1>9, <1>10, <1>11, <1>12, <1>13, <1>14
       DEF Step

-----------------------------------------------------------------------------
(* What the access logs tell.                                              *)

\* The status an access log tells from now on.
Telling(t) == IF answer[t] = NoAnswer THEN ServerError ELSE answer[t].status

\* Below every ExceptionMiddleware the exception has yet to pass there is a
\* ServerErrorMiddleware, which answers first.
Guarded(fs) ==
    \A n \in 1..Len(fs) : fs[n].kind = "handlers" =>
        \E k \in 1..Len(fs) : n < k /\ fs[k].kind = "error"

Logged(t) ==
    /\ mode[t] = "down" /\ answer[t] # NoAnswer => Len(frames[t]) = Len(stack[t])
    /\ mode[t] = "up" => answer[t] # NoAnswer
    /\ \A n \in 1..Len(frames[t]) :
           frames[t][n].kind = "access" => frames[t][n].status = Telling(t)
    /\ accessed[t] \subseteq {Telling(t)}
    /\ answer[t] = NoAnswer /\ accessed[t] # {} =>
           /\ mode[t] # "down"
           /\ mode[t] = "raise" => error[t] = "cancelled" \/ Guarded(frames[t])

LEMMA LoggedOthers ==
    ASSUME NEW t, Same(t), Logged(t)
    PROVE  Logged(t)'
  BY DEF Same, Logged, Telling

LEMMA LoggedEnters ==
    ASSUME NEW t, NEW f, Enters(t, f), Logged(t), f.kind = "access" => f.status = ServerError,
           Len(stack[t]) \in Nat
    PROVE  Logged(t)'
  <1>1. answer[t] = NoAnswer /\ answer'[t] = NoAnswer
    BY DEF Enters, Logged
  <1>2. \A n \in 1..Len(frames'[t]) : n \in 1..Len(frames[t]) \/ n = Len(frames'[t])
    BY DEF Enters
  <1>3. \A n \in 1..Len(frames'[t]) :
           frames'[t][n].kind = "access" => frames'[t][n].status = ServerError
    BY <1>1, <1>2 DEF Enters, Logged, Telling
  <1>4. accessed'[t] = {}
    BY <1>1 DEF Enters, Logged
  <1> QED
    BY <1>1, <1>3, <1>4 DEF Enters, Logged, Telling

LEMMA LoggedSilent ==
    ASSUME NEW t, NEW f, Leaves(t, f), Silent(t), Logged(t), mode'[t] = mode[t],
           accessed'[t] = accessed[t],
           answer[t] = NoAnswer /\ accessed[t] # {} =>
               error'[t] = "cancelled" \/ Guarded(frames'[t])
    PROVE  Logged(t)'
  <1>1. \A n \in 1..Len(frames'[t]) :
           frames'[t][n].kind = "access" => frames'[t][n].status = Telling(t)
    <2>1. PICK N \in Nat : N = Len(frames'[t]) /\ Len(frames[t]) = N + 1
      BY DEF Leaves
    <2>2. \A n \in 1..N : /\ frames'[t][n].kind = frames[t][n].kind
                           /\ frames'[t][n].status = frames[t][n].status
      BY <2>1 DEF Leaves, Silent, Alike
    <2>3. \A n \in 1..(N + 1) : frames[t][n].kind = "access" => frames[t][n].status = Telling(t)
      BY <2>1 DEF Logged
    <2> QED
      BY <2>1, <2>2, <2>3
  <1>2. Telling(t)' = Telling(t)
    BY DEF Silent, Telling
  <1>3. mode'[t] \in {"up", "raise"} /\ answer'[t] = answer[t]
    BY DEF Leaves, Silent
  <1>4. /\ mode[t] = "up" => answer[t] # NoAnswer
        /\ accessed[t] \subseteq {Telling(t)}
    BY DEF Logged
  <1> QED
    BY <1>1, <1>2, <1>3, <1>4 DEF Logged

LEMMA GuardedLeaves ==
    ASSUME NEW t, NEW f, Leaves(t, f), f.kind # "error", Guarded(frames[t])
    PROVE  Guarded(frames'[t])
  <1>1. PICK N \in Nat : N = Len(frames'[t]) /\ N + 1 = Len(frames[t])
    BY DEF Leaves
  <1>2. \A n \in 1..N : frames'[t][n].kind = frames[t][n].kind
    BY <1>1 DEF Leaves, Alike
  <1>3. \A k \in 1..(N + 1) : frames[t][k].kind = "error" => k \in 1..N
    BY <1>1 DEF Leaves
  <1>4. \A n \in 1..N : frames[t][n].kind = "handlers" =>
            \E k \in 1..(N + 1) : n < k /\ frames[t][k].kind = "error"
    BY <1>1 DEF Guarded
  <1>5. \A n \in 1..N : frames'[t][n].kind = "handlers" =>
            \E k \in 1..N : n < k /\ frames'[t][k].kind = "error"
    BY <1>2, <1>3, <1>4
  <1> QED
    BY <1>1, <1>5 DEF Guarded

LEMMA LoggedSent ==
    ASSUME NEW t, NEW s, Sent(t, s), accessed'[t] \subseteq {s},
           mode'[t] = "down" => Len(frames'[t]) = Len(stack'[t])
    PROVE  Logged(t)'
  BY DEF Sent, Logged, Telling

LEMMA LoggedStep ==
    ASSUME Types, NEW t \in Task, Way(t), Logged(t), Step(t)
    PROVE  Logged(t)'
  <1>1. CASE \E s \in Stack, h \in Id \cup {NoId} : Receive(t, s, h)
    <2>1. frames'[t] = <<>> /\ accessed'[t] = {} /\ mode'[t] = "down" /\ answer'[t] = NoAnswer
      BY <1>1 DEF Receive, Types, Way
    <2> QED
      BY <2>1 DEF Logged
  <1>2. CASE EnterTrace(t)
    BY <1>2, EnterTraceFacts, LoggedEnters, SeqLen
  <1>3. CASE EnterService(t)
    BY <1>3, EnterServiceFacts, LoggedEnters, SeqLen
  <1>4. CASE EnterAccess(t)
    BY <1>4, EnterAccessFacts, LoggedEnters, SeqLen
  <1>5. CASE EnterOther(t)
    BY <1>5, EnterOtherFacts, LoggedEnters, SeqLen
  <1>6. CASE Tells(t)
    BY <1>6 DEF Tells, Logged, Telling
  <1>7. CASE StartsResponse(t)
    <2>1. PICK s \in Status : Sent(t, s)
      BY <1>7, StartsResponseFacts
    <2>2. accessed'[t] = {}
      BY <1>7, StartsResponseFacts DEF Logged
    <2> QED
      BY <1>7, <2>1, <2>2, StartsResponseFacts, LoggedSent
  <1>8. CASE Returns(t)
    BY <1>8 DEF Returns, Logged, Telling, Types
  <1>9. CASE Raises(t)
    BY <1>9 DEF Raises, Logged, Telling, Types, AtEndpoint
  <1>10. CASE LeaveScope(t)
    <2>1. PICK f : /\ Leaves(t, f) /\ Silent(t) /\ f.kind \in {"trace", "service"}
                   /\ mode'[t] = mode[t] /\ error'[t] = error[t] /\ accessed'[t] = accessed[t]
      BY <1>10, LeaveScopeFacts
    <2>2. answer[t] = NoAnswer /\ accessed[t] # {} =>
              error'[t] = "cancelled" \/ Guarded(frames'[t])
      BY <2>1, GuardedLeaves DEF Leaves, Logged
    <2> QED
      BY <2>1, <2>2, LoggedSilent
  <1>11. CASE LeaveAccess(t)
    <2>1. PICK f : /\ Leaves(t, f) /\ Silent(t) /\ f.kind = "access"
                   /\ accessed'[t] = accessed[t] \cup {f.status}
                   /\ mode'[t] = mode[t] /\ error'[t] = error[t]
      BY <1>11, LeaveAccessFacts
    <2>2. f.status = Telling(t) /\ Telling(t)' = Telling(t)
      BY <2>1 DEF Leaves, Logged, Silent, Telling
    <2>3. \A n \in 1..Len(frames'[t]) :
             frames'[t][n].kind = "access" => frames'[t][n].status = Telling(t)
      BY <2>1 DEF Leaves, Silent, Alike, Logged
    <2>4. Guarded(frames'[t])
      <3>1. PICK N \in Nat : N = Len(frames'[t]) /\ N + 1 = Len(frames[t]) /\ N + 1 <= Len(stack[t])
                             /\ Len(stack[t]) \in Nat
        BY <2>1, SeqLen DEF Leaves, Way
      <3>2. stack[t] \in Stack /\ DOMAIN stack[t] = 1..Len(stack[t])
        BY <3>1, SeqLen, LenProperties DEF Way
      <3>3. \A n \in 1..N : frames'[t][n].kind = stack[t][n].kind
        BY <2>1, <3>1 DEF Leaves, Alike, Way
      <3>4. stack[t][N + 1].kind = "access"
        BY <2>1, <3>1 DEF Leaves, Way
      <3>5. \A n \in 1..N : n \in DOMAIN stack[t] /\ n < Len(stack[t])
        BY <3>1, <3>2
      <3>6. \A n \in 1..N : stack[t][n].kind = "handlers" => stack[t][n + 1].kind = "error"
        BY <3>2, <3>5, StackAssumption
      <3>7. ASSUME NEW n \in 1..N, frames'[t][n].kind = "handlers"
            PROVE  \E k \in 1..N : n < k /\ frames'[t][k].kind = "error"
        <4>1. stack[t][n + 1].kind = "error"
          BY <3>3, <3>6, <3>7
        <4>2. n # N
          BY <3>4, <4>1
        <4>3. n + 1 \in 1..N /\ n < n + 1
          BY <4>2
        <4> QED
          BY <3>3, <4>1, <4>3
      <3> QED
        BY <3>1, <3>7 DEF Guarded
    <2> QED
      BY <2>1, <2>2, <2>3, <2>4 DEF Logged, Leaves, Silent
  <1>12. CASE LeaveHandlers(t)
    <2>1. PICK f :
             /\ Leaves(t, f) /\ f.kind = "handlers" /\ accessed'[t] = accessed[t]
             /\ \/ /\ mode[t] = "raise" /\ Handles(f.app, error[t]) /\ answer[t] = NoAnswer
                   /\ \E s \in Answers(error[t]) : Sent(t, s)
                   /\ mode'[t] = "up" /\ error'[t] = error[t]
                \/ /\ mode[t] = "raise" /\ Handles(f.app, error[t]) /\ answer[t] # NoAnswer
                   /\ Silent(t) /\ mode'[t] = mode[t] /\ error'[t] = "other"
                \/ /\ mode[t] = "up" \/ ~Handles(f.app, error[t])
                   /\ Silent(t) /\ mode'[t] = mode[t] /\ error'[t] = error[t]
      BY <1>12, LeaveHandlersFacts
    <2>2. ~ Guarded(frames[t])
      BY <2>1 DEF Leaves, Guarded
    <2>3. answer[t] = NoAnswer /\ accessed[t] # {} => error[t] = "cancelled"
      BY <2>1, <2>2 DEF Logged, Leaves
    <2>4. CASE /\ mode[t] = "raise" /\ Handles(f.app, error[t]) /\ answer[t] = NoAnswer
               /\ \E s \in Answers(error[t]) : Sent(t, s)
               /\ mode'[t] = "up" /\ error'[t] = error[t]
      <3>1. accessed'[t] = {}
        BY <2>1, <2>3, <2>4 DEF Handles
      <3> QED
        BY <2>4, <3>1, LoggedSent
    <2>5. CASE /\ mode[t] = "raise" /\ Handles(f.app, error[t]) /\ answer[t] # NoAnswer
               /\ Silent(t) /\ mode'[t] = mode[t] /\ error'[t] = "other"
      BY <2>1, <2>5, LoggedSilent
    <2>6. CASE /\ mode[t] = "up" \/ ~Handles(f.app, error[t])
               /\ Silent(t) /\ mode'[t] = mode[t] /\ error'[t] = error[t]
      BY <2>1, <2>3, <2>6, LoggedSilent
    <2> QED
      BY <2>1, <2>4, <2>5, <2>6
  <1>13. CASE LeaveError(t)
    <2>1. PICK f :
             /\ Leaves(t, f) /\ f.kind = "error" /\ accessed'[t] = accessed[t]
             /\ mode'[t] = mode[t] /\ error'[t] = error[t]
             /\ IF mode[t] = "raise" /\ error[t] # "cancelled" /\ answer[t] = NoAnswer
                THEN Sent(t, ServerError)
                ELSE Silent(t)
      BY <1>13, LeaveErrorFacts
    <2>2. CASE mode[t] = "raise" /\ error[t] # "cancelled" /\ answer[t] = NoAnswer
      <3>1. accessed'[t] \subseteq {ServerError}
        BY <2>1, <2>2 DEF Logged, Telling
      <3> QED
        BY <2>1, <2>2, <3>1, LoggedSent
    <2>3. CASE ~ (mode[t] = "raise" /\ error[t] # "cancelled" /\ answer[t] = NoAnswer)
      <3>1. answer[t] = NoAnswer => error'[t] = "cancelled"
        BY <2>1, <2>3 DEF Leaves, Logged
      <3> QED
        BY <2>1, <2>3, <3>1, LoggedSilent
    <2> QED
      BY <2>2, <2>3
  <1>14. CASE Finish(t)
    BY <1>14 DEF Finish, Logged, Telling, Types
  <1> QED
    BY <1>1, <1>2, <1>3, <1>4, <1>5, <1>6, <1>7, <1>8, <1>9, <1>10, <1>11, <1>12, <1>13, <1>14
       DEF Step

-----------------------------------------------------------------------------
(* Failures of upstream services.                                          *)

AllRegistered(t) == \A n \in DOMAIN stack[t] : stack[t][n].app \in Registered

Translates(t) ==
    /\ mode[t] = "down" => cause[t] = NoError /\ answer[t].status # ServerError
    /\ cause[t] \in Upstream /\ AllRegistered(t) =>
           /\ answer[t].status # ServerError
           /\ mode[t] = "raise" /\ answer[t] = NoAnswer =>
                  error[t] = "upstream" /\ Len(frames[t]) = Len(stack[t])

LEMMA TranslatesOthers ==
    ASSUME NEW t, Same(t), Translates(t)
    PROVE  Translates(t)'
  BY DEF Same, Translates, AllRegistered

LEMMA TranslatesEnters ==
    ASSUME NEW t, NEW f, Enters(t, f), Translates(t)
    PROVE  Translates(t)'
  BY DEF Enters, Translates, AllRegistered, Upstream, NoError

\* The exception is still below the last layer only at that layer.
LEMMA LastIsHandlers ==
    ASSUME Types, NEW t \in Task, NEW f, Leaves(t, f), Way(t), Len(frames[t]) = Len(stack[t])
    PROVE  /\ f.kind = "handlers"
           /\ AllRegistered(t) => f.app \in Registered
  <1>1. Len(stack[t]) \in 1..Len(stack[t]) /\ DOMAIN stack[t] = 1..Len(stack[t])
    BY SeqLen, LenProperties DEF Leaves
  <1>2. stack[t] \in Stack
    BY <1>1 DEF Way
  <1>3. f.kind = stack[t][Len(stack[t])].kind /\ f.app = stack[t][Len(stack[t])].app
    BY <1>1 DEF Leaves, Way
  <1> QED
    BY <1>1, <1>2, <1>3, StackAssumption DEF AllRegistered

LEMMA TranslatesSilent ==
    ASSUME Types, NEW t \in Task, NEW f, Leaves(t, f), Silent(t), Way(t), Translates(t),
           mode'[t] = mode[t],
           f.kind = "handlers" => mode[t] = "up" \/ answer[t] # NoAnswer
                                  \/ ~ Handles(f.app, error[t])
    PROVE  Translates(t)'
  <1>1. mode'[t] # "down" /\ cause'[t] = cause[t] /\ answer'[t] = answer[t]
        /\ (AllRegistered(t)' <=> AllRegistered(t))
    BY DEF Leaves, Silent, AllRegistered
  <1>2. ~ (/\ cause[t] \in Upstream /\ AllRegistered(t)
           /\ mode[t] = "raise" /\ answer[t] = NoAnswer)
    BY LastIsHandlers DEF Translates, Handles
  <1> QED
    BY <1>1, <1>2 DEF Translates

LEMMA TranslatesStep ==
    ASSUME Types, NEW t \in Task, Way(t), Translates(t), Step(t)
    PROVE  Translates(t)'
  <1>1. CASE \E s \in Stack, h \in Id \cup {NoId} : Receive(t, s, h)
    <2>1. mode'[t] = "down" /\ cause'[t] = NoError /\ answer'[t] = NoAnswer
      BY <1>1 DEF Receive, Types
    <2> QED
      BY <2>1 DEF Translates, NoAnswer, ServerError, NoError, Upstream
  <1>2. CASE EnterTrace(t)
    BY <1>2, EnterTraceFacts, TranslatesEnters
  <1>3. CASE EnterService(t)
    BY <1>3, EnterServiceFacts, TranslatesEnters
  <1>4. CASE EnterAccess(t)
    BY <1>4, EnterAccessFacts, TranslatesEnters
  <1>5. CASE EnterOther(t)
    BY <1>5, EnterOtherFacts, TranslatesEnters
  <1>6. CASE Tells(t)
    BY <1>6 DEF Tells, Translates, AllRegistered
  <1>7. CASE StartsResponse(t)
    <2>1. PICK s \in Status : answer'[t].status = s
      BY <1>7, StartsResponseFacts DEF Sent
    <2>2. mode'[t] = "down" /\ cause'[t] = NoError
      BY <1>7, StartsResponseFacts DEF Translates
    <2> QED
      BY <2>1, <2>2, EndpointAssumption DEF Translates, Upstream, NoError
  <1>8. CASE Returns(t)
    <2>1. mode'[t] = "up" /\ cause'[t] = NoError
      BY <1>8 DEF Returns, AtEndpoint, Translates, Types
    <2> QED
      BY <2>1 DEF Translates, Upstream, NoError
  <1>9. CASE Raises(t)
    <2>1. PICK e \in Raised : error'[t] = Translated(e) /\ cause'[t] = e
      BY <1>9 DEF Raises, Types
    <2>2. /\ mode'[t] = "raise" /\ answer' = answer /\ stack' = stack /\ frames' = frames
          /\ mode[t] = "down" /\ Len(frames[t]) = Len(stack[t])
      BY <1>9 DEF Raises, AtEndpoint, Depth, Types
    <2> QED
      BY <2>1, <2>2 DEF Translates, Translated
  <1>10. CASE LeaveScope(t)
    BY <1>10, LeaveScopeFacts, TranslatesSilent
  <1>11. CASE LeaveAccess(t)
    BY <1>11, LeaveAccessFacts, TranslatesSilent
  <1>12. CASE LeaveHandlers(t)
    <2>1. PICK f :
             /\ Leaves(t, f) /\ f.kind = "handlers"
             /\ \/ /\ mode[t] = "raise" /\ Handles(f.app, error[t]) /\ answer[t] = NoAnswer
                   /\ \E s \in Answers(error[t]) : Sent(t, s)
                   /\ mode'[t] = "up" /\ error'[t] = error[t]
                \/ /\ mode[t] = "raise" /\ Handles(f.app, error[t]) /\ answer[t] # NoAnswer
                   /\ Silent(t) /\ mode'[t] = mode[t] /\ error'[t] = "other"
                \/ /\ mode[t] = "up" \/ ~Handles(f.app, error[t])
                   /\ Silent(t) /\ mode'[t] = mode[t] /\ error'[t] = error[t]
      BY <1>12, LeaveHandlersFacts
    <2>2. CASE /\ mode[t] = "raise" /\ answer[t] = NoAnswer
               /\ \E s \in Answers(error[t]) : Sent(t, s)
               /\ mode'[t] = "up"
      <3>1. cause'[t] = cause[t] /\ (AllRegistered(t)' <=> AllRegistered(t))
        BY <2>1 DEF Leaves, AllRegistered
      <3>2. cause[t] \in Upstream /\ AllRegistered(t) => answer'[t].status = UpstreamStatus
        BY <2>2 DEF Translates, Answers, Sent
      <3> QED
        BY <2>2, <3>1, <3>2 DEF Translates, UpstreamStatus, ServerError
    <2>3. CASE Silent(t) /\ mode'[t] = mode[t]
               /\ (mode[t] = "up" \/ answer[t] # NoAnswer \/ ~ Handles(f.app, error[t]))
      BY <2>1, <2>3, TranslatesSilent
    <2> QED
      BY <2>1, <2>2, <2>3
  <1>13. CASE LeaveError(t)
    <2>1. PICK f :
             /\ Leaves(t, f) /\ f.kind = "error" /\ mode'[t] = mode[t]
             /\ IF mode[t] = "raise" /\ error[t] # "cancelled" /\ answer[t] = NoAnswer
                THEN Sent(t, ServerError)
                ELSE Silent(t)
      BY <1>13, LeaveErrorFacts
    <2>2. CASE mode[t] = "raise" /\ error[t] # "cancelled" /\ answer[t] = NoAnswer
      <3>1. mode'[t] # "down" /\ cause'[t] = cause[t] /\ (AllRegistered(t)' <=> AllRegistered(t))
        BY <2>1, <2>2 DEF Leaves, AllRegistered
      <3>2. ~ (cause[t] \in Upstream /\ AllRegistered(t))
        BY <2>1, <2>2, LastIsHandlers DEF Translates
      <3> QED
        BY <3>1, <3>2 DEF Translates
    <2>3. CASE ~ (mode[t] = "raise" /\ error[t] # "cancelled" /\ answer[t] = NoAnswer)
      BY <2>1, <2>3, TranslatesSilent
    <2> QED
      BY <2>2, <2>3
  <1>14. CASE Finish(t)
    BY <1>14 DEF Finish, Translates, AllRegistered, Types
  <1> QED
    BY <1>1, <1>2, <1>3, <1>4, <1>5, <1>6, <1>7, <1>8, <1>9, <1>10, <1>11, <1>12, <1>13, <1>14
       DEF Step

-----------------------------------------------------------------------------
(* The ids of a request.                                                   *)

Known(t) == issued[t] \cup {NoId}

Tracked(t) ==
    /\ \A n \in 1..Len(frames[t]) : frames[t][n].kind = "trace" =>
           frames[t][n].id \in issued[t] /\ frames[t][n].old \in Known(t)
    /\ context[t].id \in Known(t)
    /\ told[t] \subseteq issued[t]
    /\ DOMAIN answer[t].ids \subseteq Of(stack[t], "trace")
    /\ \A n \in DOMAIN answer[t].ids : answer[t].ids[n] \in issued[t]
    /\ header[t] # NoId => issued[t] \subseteq {header[t]}
    /\ mode[t] = "down" /\ issued[t] # {} =>
           \E n \in 1..Len(frames[t]) : frames[t][n].kind = "trace"
    /\ Once(stack[t]) => \A a, b \in issued[t] : a = b

Apart(t, u) ==
    t # u /\ header[t] = NoId /\ header[u] = NoId => issued[t] \cap issued[u] = {}

\* A stack with TraceIDMiddleware once has one position for it.
LEMMA OnePosition ==
    ASSUME NEW s \in Seq(Layer), Once(s), NEW m \in Of(s, "trace"), NEW n \in Of(s, "trace")
    PROVE  m = n
  <1>1. DOMAIN s = 1..Len(s) /\ Len(s) \in Nat
    BY LenProperties
  <1>2. IsFiniteSet(Of(s, "trace"))
    <2>1. IsFiniteSet(1..Len(s)) /\ Of(s, "trace") \subseteq 1..Len(s)
      BY <1>1, FS_Interval DEF Of
    <2> QED
      BY <2>1, FS_Subset
  <1>3. {m, n} \subseteq Of(s, "trace")
    OBVIOUS
  <1>4. Cardinality({m, n}) <= Cardinality(Of(s, "trace")) /\ IsFiniteSet({m, n})
    BY <1>2, <1>3, FS_Subset
  <1>5. Cardinality(Of(s, "trace")) \in Nat /\ Cardinality({m, n}) \in Nat
    BY <1>2, <1>4, FS_CardinalityType
  <1>6. ASSUME m # n
        PROVE  FALSE
    <2>1. Cardinality({m}) = 1 /\ IsFiniteSet({m})
      BY FS_Singleton
    <2>2. n \notin {m} /\ {m} \cup {n} = {m, n}
      BY <1>6
    <2>3. Cardinality({m} \cup {n}) = Cardinality({m}) + 1
      BY <2>1, <2>2, FS_AddElement
    <2>4. Cardinality({m, n}) = 2
      BY <2>1, <2>2, <2>3
    <2> QED
      BY <1>4, <1>5, <2>4 DEF Once
  <1> QED
    BY <1>6

LEMMA AtMostOne ==
    ASSUME NEW S, \A a, b \in S : a = b
    PROVE  Cardinality(S) <= 1
  <1>1. CASE S = {}
    BY <1>1, FS_EmptySet
  <1>2. CASE S # {}
    <2>1. PICK a : a \in S
      BY <1>2
    <2>2. S \subseteq {a} /\ {a} \subseteq S
      BY <2>1
    <2>3. S = {a}
      BY <2>2
    <2>4. Cardinality({a}) = 1
      BY FS_Singleton
    <2> QED
      BY <2>3, <2>4
  <1> QED
    BY <1>1, <1>2

LEMMA TrackedOthers ==
    ASSUME NEW t, Same(t), Tracked(t)
    PROVE  Tracked(t)'
  BY DEF Same, Tracked, Known

LEMMA TrackedEntersTrace ==
    ASSUME Types, NEW t \in Task, NEW f, Enters(t, f), Way(t), Tracked(t), f.kind = "trace",
           f.id \in Id, f.old = context[t].id, context'[t].id = f.id,
           issued'[t] = issued[t] \cup {f.id}, header[t] # NoId => f.id = header[t]
    PROVE  Tracked(t)'
  <1>1. PICK N \in Nat : N = Len(frames[t]) /\ Len(frames'[t]) = N + 1 /\ N + 1 \in 1..Len(stack[t])
                         /\ frames'[t][N + 1] = f /\ stack[t][N + 1].kind = "trace"
    BY DEF Enters
  <1>2. \A n \in 1..(N + 1) : n \in 1..N \/ n = N + 1
    BY <1>1
  <1>3. \A n \in 1..N : frames'[t][n] = frames[t][n]
    BY <1>1 DEF Enters
  <1>4. \A n \in 1..(N + 1) : frames'[t][n].kind = "trace" =>
           frames'[t][n].id \in issued'[t] /\ frames'[t][n].old \in Known(t)'
    BY <1>1, <1>2, <1>3 DEF Tracked, Known
  <1>5. \E n \in 1..(N + 1) : frames'[t][n].kind = "trace"
    BY <1>1
  <1>6. ASSUME Once(stack[t])
        PROVE  issued[t] = {}
    <2>1. ASSUME issued[t] # {}
          PROVE  FALSE
      <3>1. PICK n \in 1..N : frames[t][n].kind = "trace"
        BY <1>1, <2>1 DEF Tracked, Enters
      <3>2. stack[t][n].kind = "trace"
        BY <1>1, <3>1 DEF Way
      <3>3. n \in Of(stack[t], "trace") /\ N + 1 \in Of(stack[t], "trace") /\ n # N + 1
        BY <1>1, <3>2, SeqLen, LenProperties DEF Of
      <3> QED
        BY <1>6, <3>3, OnePosition, SeqLen
    <2> QED
      BY <2>1
  <1>7. Once(stack'[t]) => \A a, b \in issued'[t] : a = b
    BY <1>6 DEF Enters
  <1>8. /\ header'[t] # NoId => issued'[t] \subseteq {header'[t]}
        /\ told'[t] \subseteq issued'[t] /\ context'[t].id \in Known(t)'
        /\ DOMAIN answer'[t].ids \subseteq Of(stack'[t], "trace")
        /\ \A n \in DOMAIN answer'[t].ids : answer'[t].ids[n] \in issued'[t]
    BY DEF Enters, Tracked, Known
  <1> QED
    BY <1>1, <1>4, <1>5, <1>7, <1>8 DEF Tracked

LEMMA TrackedEnters ==
    ASSUME NEW t \in Task, NEW f, Enters(t, f), Tracked(t), f.kind # "trace",
           context'[t].id = context[t].id, issued'[t] = issued[t]
    PROVE  Tracked(t)'
  <1>1. PICK N \in Nat : N = Len(frames[t]) /\ Len(frames'[t]) = N + 1 /\ frames'[t][N + 1] = f
    BY DEF Enters
  <1>2. \A n \in 1..(N + 1) : n \in 1..N \/ n = N + 1
    BY <1>1
  <1>3. \A n \in 1..N : frames'[t][n] = frames[t][n]
    BY <1>1 DEF Enters
  <1>4. \A n \in 1..(N + 1) : frames'[t][n].kind = "trace" =>
           frames'[t][n].id \in issued'[t] /\ frames'[t][n].old \in Known(t)'
    BY <1>1, <1>2, <1>3 DEF Tracked, Known
  <1>5. issued[t] # {} => \E n \in 1..N : frames[t][n].kind = "trace"
    BY <1>1 DEF Tracked, Enters
  <1>6. issued[t] # {} => \E n \in 1..(N + 1) : frames'[t][n].kind = "trace"
    BY <1>1, <1>3, <1>5
  <1> QED
    BY <1>1, <1>4, <1>6 DEF Enters, Tracked, Known

\* Leaving a layer: the context gets an id the frame kept, or keeps its own.
LEMMA TrackedLeaves ==
    ASSUME Types, NEW t \in Task, NEW f, Leaves(t, f), Tracked(t), Way(t)',
           mode'[t] # "down",
           context'[t].id = IF f.kind = "trace" THEN f.old ELSE context[t].id,
           told'[t] \subseteq told[t] \cup Carried(context[t].id),
           Silent(t) \/ \E s : Sent(t, s)
    PROVE  Tracked(t)'
  <1>1. PICK N \in Nat : N = Len(frames'[t]) /\ Len(frames[t]) = N + 1 /\ frames[t][N + 1] = f
    BY DEF Leaves
  <1>2. \A n \in 1..N : /\ frames'[t][n].kind = frames[t][n].kind
                         /\ frames'[t][n].id = frames[t][n].id
                         /\ frames'[t][n].old = frames[t][n].old
    BY <1>1 DEF Leaves, Alike
  <1>3. issued'[t] = issued[t] /\ header'[t] = header[t] /\ stack'[t] = stack[t]
    BY DEF Leaves
  <1>4. \A n \in 1..N : frames'[t][n].kind = "trace" =>
           frames'[t][n].id \in issued'[t] /\ frames'[t][n].old \in Known(t)'
    <2>1. \A n \in 1..(N + 1) : frames[t][n].kind = "trace" =>
             frames[t][n].id \in issued[t] /\ frames[t][n].old \in Known(t)
      BY <1>1 DEF Tracked
    <2> QED
      BY <1>2, <1>3, <2>1 DEF Known
  <1>5. context'[t].id \in Known(t)'
    BY <1>1, <1>3 DEF Tracked, Known
  <1>6. told'[t] \subseteq issued'[t]
    BY <1>3 DEF Tracked, Known, Carried
  <1>7. /\ DOMAIN answer'[t].ids \subseteq Of(stack'[t], "trace")
        /\ \A n \in DOMAIN answer'[t].ids : answer'[t].ids[n] \in issued'[t]
    <2>1. CASE Silent(t)
      BY <1>3, <2>1 DEF Silent, Tracked
    <2>2. CASE \E s : Sent(t, s)
      <3>1. frames'[t] \in Seq(FrameType) /\ Len(stack'[t]) \in Nat
        BY <1>3, SeqLen DEF Leaves
      <3>2. DOMAIN frames'[t] = 1..N /\ DOMAIN stack'[t] = 1..Len(stack'[t]) /\ N <= Len(stack'[t])
        BY <1>1, <1>3, <3>1, SeqLen, LenProperties DEF Way
      <3>3. /\ DOMAIN answer'[t].ids = Of(frames'[t], "trace")
            /\ \A n \in DOMAIN answer'[t].ids : answer'[t].ids[n] = frames'[t][n].id
        BY <2>2 DEF Sent
      <3>4. \A n \in 1..N : frames'[t][n].kind = stack'[t][n].kind
        BY <1>1 DEF Way
      <3>5. Of(frames'[t], "trace") \subseteq Of(stack'[t], "trace")
        BY <3>2, <3>4 DEF Of
      <3>6. \A n \in Of(frames'[t], "trace") : frames'[t][n].id \in issued'[t]
        BY <1>4, <3>2 DEF Of
      <3> QED
        BY <3>3, <3>5, <3>6
    <2> QED
      BY <2>1, <2>2
  <1> QED
    BY <1>1, <1>3, <1>4, <1>5, <1>6, <1>7 DEF Tracked

LEMMA TrackedStep ==
    ASSUME Types, NEW t \in Task, Way(t), Way(t)', Tracked(t), Step(t)
    PROVE  Tracked(t)'
  <1>1. CASE \E s \in Stack, h \in Id \cup {NoId} : Receive(t, s, h)
    <2>1. /\ frames'[t] = <<>> /\ mode'[t] = "down" /\ answer'[t] = NoAnswer /\ issued'[t] = {}
          /\ told'[t] = {} /\ context'[t] = context[t] /\ frames[t] = <<>>
      BY <1>1 DEF Receive, Types, Way
    <2>2. context[t].id = NoId
      BY <2>1 DEF Way, Scoped, Sets
    <2> QED
      BY <2>1, <2>2 DEF Tracked, Known, NoAnswer
  <1>2. CASE EnterTrace(t)
    BY <1>2, EnterTraceFacts, TrackedEntersTrace
  <1>3. CASE EnterService(t)
    BY <1>3, EnterServiceFacts, TrackedEnters
  <1>4. CASE EnterAccess(t)
    BY <1>4, EnterAccessFacts, TrackedEnters
  <1>5. CASE EnterOther(t)
    BY <1>5, EnterOtherFacts, TrackedEnters
  <1>6. CASE Tells(t)
    <2>1. told'[t] = told[t] \cup Carried(context[t].id)
      BY <1>6 DEF Tells, Types
    <2>2. told'[t] \subseteq issued[t]
      BY <2>1 DEF Tracked, Known, Carried
    <2> QED
      BY <1>6, <2>2 DEF Tells, Tracked, Known
  <1>7. CASE StartsResponse(t)
    <2>1. PICK s \in Status : Sent(t, s)
      BY <1>7, StartsResponseFacts
    <2>2. PICK N \in Nat : N = Len(frames[t]) /\ Len(frames'[t]) = N /\ N = Len(stack'[t])
                           /\ frames'[t] \in Seq(FrameType) /\ stack'[t] \in Seq(Layer)
      BY <1>7, StartsResponseFacts, SeqLen
    <2>3. \A n \in 1..N : /\ frames'[t][n].kind = frames[t][n].kind
                           /\ frames'[t][n].id = frames[t][n].id
                           /\ frames'[t][n].old = frames[t][n].old
      BY <1>7, <2>2, StartsResponseFacts DEF Alike
    <2>4. issued' = issued /\ header' = header /\ stack' = stack /\ told' = told
          /\ context' = context /\ mode' = mode
      BY <1>7, StartsResponseFacts
    <2>5. \A n \in 1..N : frames'[t][n].kind = "trace" =>
             frames'[t][n].id \in issued'[t] /\ frames'[t][n].old \in Known(t)'
      BY <2>2, <2>3, <2>4 DEF Tracked, Known
    <2>6. DOMAIN frames'[t] = 1..N /\ DOMAIN stack'[t] = 1..N
      BY <2>2, LenProperties
    <2>7. \A n \in 1..N : frames'[t][n].kind = stack'[t][n].kind
      BY <2>2 DEF Way
    <2>8. /\ DOMAIN answer'[t].ids \subseteq Of(stack'[t], "trace")
          /\ \A n \in DOMAIN answer'[t].ids : answer'[t].ids[n] \in issued'[t]
      BY <2>1, <2>5, <2>6, <2>7 DEF Sent, Of
    <2>9. mode[t] = "down" /\ issued[t] # {} => \E n \in 1..N : frames'[t][n].kind = "trace"
      BY <2>2, <2>3 DEF Tracked
    <2> QED
      BY <2>2, <2>4, <2>5, <2>8, <2>9 DEF Tracked, Known
  <1>8. CASE Returns(t)
    BY <1>8 DEF Returns, Tracked, Known, Types
  <1>9. CASE Raises(t)
    BY <1>9 DEF Raises, Tracked, Known, Types
  <1>10. CASE LeaveScope(t)
    <2>1. PICK f : /\ Leaves(t, f) /\ Silent(t) /\ mode'[t] = mode[t] /\ told'[t] = told[t]
                   /\ context'[t].id = IF f.kind = "trace" THEN f.old ELSE context[t].id
      BY <1>10, LeaveScopeFacts
    <2>2. mode'[t] # "down"
      BY <2>1 DEF Leaves
    <2> QED
      BY <2>1, <2>2, TrackedLeaves
  <1>11. CASE LeaveAccess(t)
    <2>1. PICK f : /\ Leaves(t, f) /\ Silent(t) /\ mode'[t] = mode[t] /\ f.kind = "access"
                   /\ told'[t] = told[t] \cup Carried(context[t].id)
                   /\ context'[t] = context[t]
      BY <1>11, LeaveAccessFacts
    <2>2. mode'[t] # "down"
      BY <2>1 DEF Leaves
    <2> QED
      BY <2>1, <2>2, TrackedLeaves
  <1>12. CASE LeaveHandlers(t)
    <2>1. PICK f : /\ Leaves(t, f) /\ f.kind = "handlers" /\ context'[t] = context[t]
                   /\ told'[t] = told[t] /\ (mode'[t] = mode[t] \/ mode'[t] = "up")
                   /\ (Silent(t) \/ \E s : Sent(t, s))
      BY <1>12, LeaveHandlersFacts
    <2>2. mode'[t] # "down"
      BY <2>1 DEF Leaves
    <2> QED
      BY <2>1, <2>2, TrackedLeaves
  <1>13. CASE LeaveError(t)
    <2>1. PICK f : /\ Leaves(t, f) /\ f.kind = "error" /\ context'[t] = context[t]
                   /\ told'[t] = told[t] /\ mode'[t] = mode[t]
                   /\ (Silent(t) \/ \E s : Sent(t, s))
      BY <1>13, LeaveErrorFacts
    <2>2. mode'[t] # "down"
      BY <2>1 DEF Leaves
    <2> QED
      BY <2>1, <2>2, TrackedLeaves
  <1>14. CASE Finish(t)
    BY <1>14 DEF Finish, Tracked, Known, Types
  <1> QED
    BY <1>1, <1>2, <1>3, <1>4, <1>5, <1>6, <1>7, <1>8, <1>9, <1>10, <1>11, <1>12, <1>13, <1>14
       DEF Step

\* An id is new to the requests of the other tasks.
LEMMA ApartStep ==
    ASSUME Types, NEW t \in Task, Step(t), NEW u \in Task, u # t, Apart(t, u)
    PROVE  Apart(t, u)'
  <1>1. header'[u] = header[u] /\ issued'[u] = issued[u]
    BY OthersSame DEF Same
  <1>2. CASE \E s \in Stack, h \in Id \cup {NoId} : Receive(t, s, h)
    <2>1. issued'[t] = {}
      BY <1>2 DEF Receive, Types
    <2> QED
      BY <2>1 DEF Apart
  <1>3. CASE EnterTrace(t)
    <2>1. PICK f : /\ Enters(t, f) /\ issued'[t] = issued[t] \cup {f.id}
                   /\ header[t] = NoId => f.id \notin InUse
      BY <1>3, EnterTraceFacts
    <2>2. header'[t] = header[t]
      BY <2>1 DEF Enters
    <2>3. header[t] = NoId => f.id \notin issued[u]
      BY <2>1 DEF InUse
    <2> QED
      BY <1>1, <2>1, <2>2, <2>3 DEF Apart
  <1>4. CASE header' = header /\ issued' = issued
    BY <1>1, <1>4 DEF Apart
  <1> QED
    BY <1>2, <1>3, <1>4 DEF Step, EnterService, EnterAccess, EnterOther, Tells, StartsResponse,
       Returns, Raises, LeaveScope, LeaveAccess, LeaveHandlers, LeaveError, Finish

-----------------------------------------------------------------------------
(* The invariant.                                                          *)

IInv ==
    /\ Types
    /\ \A t \in Task : Way(t) /\ Logged(t) /\ Translates(t) /\ Tracked(t)
    /\ \A t, u \in Task : Apart(t, u)

LEMMA InitInvariant == Init => IInv
  <1> SUFFICES ASSUME Init PROVE IInv
    OBVIOUS
  <1>1. Types
    BY DEF Init, Types, Errors, ContextType, Clean, NoAnswer
  <1>2. ASSUME NEW t \in Task
        PROVE  Way(t) /\ Logged(t) /\ Translates(t) /\ Tracked(t)
    <2>1. /\ mode[t] = "idle" /\ stack[t] = <<>> /\ frames[t] = <<>> /\ header[t] = NoId
          /\ context[t] = Clean /\ cause[t] = NoError /\ answer[t] = NoAnswer
          /\ issued[t] = {} /\ told[t] = {} /\ accessed[t] = {}
      BY DEF Init
    <2>2. Scoped(frames[t], context[t])
      BY <2>1 DEF Scoped, Sets, Clean
    <2>3. Way(t)
      BY <2>1, <2>2 DEF Way
    <2>4. Logged(t)
      BY <2>1 DEF Logged
    <2>5. Translates(t)
      BY <2>1 DEF Translates, NoError, Upstream
    <2>6. Tracked(t)
      BY <2>1 DEF Tracked, Known, Clean, NoAnswer
    <2> QED
      BY <2>3, <2>4, <2>5, <2>6
  <1>3. \A t, u \in Task : Apart(t, u)
    BY DEF Init, Apart
  <1> QED
    BY <1>1, <1>2, <1>3 DEF IInv

LEMMA NextInvariant == IInv /\ [Next]_vars => IInv'
  <1> SUFFICES ASSUME IInv, [Next]_vars PROVE IInv'
    OBVIOUS
  <1> USE DEF IInv
  <1>1. CASE UNCHANGED vars
    <2>1. Types'
      BY <1>1 DEF vars, Types
    <2>2. \A t \in Task : Same(t)
      BY <1>1 DEF vars, Same
    <2>3. \A t \in Task : (Way(t) /\ Logged(t) /\ Translates(t) /\ Tracked(t))'
      BY <2>2, WayOthers, LoggedOthers, TranslatesOthers, TrackedOthers
    <2>4. \A t, u \in Task : Apart(t, u)'
      BY <1>1 DEF vars, Apart
    <2> QED
      BY <2>1, <2>3, <2>4
  <1>2. ASSUME NEW t \in Task, Step(t)
        PROVE  IInv'
    <2>1. Types'
      BY <1>2, TypesStep
    <2>2. Way(t)'
      BY <1>2, WayStep
    <2>3. (Logged(t) /\ Translates(t) /\ Tracked(t))'
      BY <1>2, <2>2, LoggedStep, TranslatesStep, TrackedStep
    <2>4. \A u \in Task \ {t} : Same(u)
      BY <1>2, OthersSame
    <2>5. \A u \in Task \ {t} : (Way(u) /\ Logged(u) /\ Translates(u) /\ Tracked(u))'
      BY <2>4, WayOthers, LoggedOthers, TranslatesOthers, TrackedOthers
    <2>6. \A u \in Task \ {t} : Apart(t, u)'
      BY <1>2, ApartStep
    <2>7. \A u, v \in Task : Apart(u, v)'
      <3>1. \A u, v \in Task \ {t} : Apart(u, v)'
        BY <2>4 DEF Same, Apart
      <3>2. \A u \in Task \ {t} : Apart(u, t)'
        BY <2>6 DEF Apart
      <3>3. Apart(t, t)'
        BY DEF Apart
      <3> QED
        BY <2>6, <3>1, <3>2, <3>3
    <2> QED
      BY <2>1, <2>2, <2>3, <2>5, <2>7
  <1> QED
    BY <1>1, <1>2 DEF Next, Step

THEOREM Invariant == Spec => []IInv
  BY InitInvariant, NextInvariant, PTL DEF Spec

\* Every variable keeps the type the code gives it: a layer's frame holds what
\* that layer keeps, the histories ids and statuses.
THEOREM TypeCorrect == Spec => []Types
  <1>1. IInv => Types
    BY DEF IInv
  <1> QED
    BY <1>1, Invariant, PTL

\* Any number of scopes, nested in any order and left in any way: the context
\* is what the innermost open ones set, and clean between requests.
THEOREM ContextRestored == Spec => []ContextFollowsScopes
  <1>1. IInv => ContextFollowsScopes
    BY SetsInScope, SeqLen DEF IInv, Way, Scoped, ContextFollowsScopes
  <1> QED
    BY <1>1, Invariant, PTL

\* Every access log, of whatever app of a stack, tells the status sent.
THEOREM LogsTruthful == Spec => []AccessLogTellsTruth
  <1>1. IInv => AccessLogTellsTruth
    BY DEF IInv, Logged, Telling, AccessLogTellsTruth
  <1> QED
    BY <1>1, Invariant, PTL

\* Registered handlers answer for an upstream failure before the server does.
THEOREM UpstreamTranslated == Spec => []UpstreamIsNot5xx
  <1>1. IInv => UpstreamIsNot5xx
    BY DEF IInv, Translates, AllRegistered, UpstreamIsNot5xx
  <1> QED
    BY <1>1, Invariant, PTL

\* A request that meets TraceIDMiddleware once has one id, its own.
THEOREM OneId == Spec => []OneIdPerRequest
  <1>1. ASSUME IInv
        PROVE  OneIdPerRequest
    <2>1. ASSUME NEW t \in Task
          PROVE  Shown(t) \subseteq issued[t] /\ Tracked(t)
      BY <1>1 DEF IInv, Tracked, Shown
    <2>2. ASSUME NEW t \in Task, Once(stack[t])
          PROVE  Cardinality(Shown(t)) <= 1
      <3>1. \A a, b \in Shown(t) : a = b
        BY <2>1, <2>2 DEF Tracked
      <3> QED
        BY <3>1, AtMostOne
    <2>3. ASSUME NEW t \in Task, Once(stack[t])
          PROVE  Cardinality(DOMAIN answer[t].ids) <= 1
      <3>1. stack[t] \in Seq(Layer) /\ DOMAIN answer[t].ids \subseteq Of(stack[t], "trace")
        BY <1>1, <2>1 DEF IInv, Types, Tracked
      <3>2. \A a, b \in DOMAIN answer[t].ids : a = b
        BY <2>3, <3>1, OnePosition
      <3> QED
        BY <3>2, AtMostOne
    <2>4. ASSUME NEW t \in Task
          PROVE  header[t] # NoId => Shown(t) \subseteq {header[t]}
      BY <2>1 DEF Tracked
    <2>5. ASSUME NEW t \in Task, NEW u \in Task \ {t}, header[t] = NoId, header[u] = NoId
          PROVE  Shown(t) \cap Shown(u) = {}
      <3>1. issued[t] \cap issued[u] = {}
        BY <1>1, <2>5 DEF IInv, Apart
      <3> QED
        BY <2>1, <3>1
    <2> QED
      BY <2>2, <2>3, <2>4, <2>5 DEF OneIdPerRequest
  <1> QED
    BY <1>1, Invariant, PTL
=============================================================================
