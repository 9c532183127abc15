---------------------------- MODULE RpcClientProofs ----------------------------
(***************************************************************************)
(* Safety of RpcClient for any set of calls and any transport capacity.    *)
(* The inductive invariant Inv of RpcClient is preserved by every action;  *)
(* the properties the runs check follow from it.                           *)
(***************************************************************************)
EXTENDS RpcWire, TLAPS

(* The initial states satisfy the inductive invariant.                      *)
LEMMA InvInit == Init => Inv
<1> SUFFICES ASSUME Init PROVE Inv
  OBVIOUS
<1> USE NoCallAssumption DEF Init, FirstSeq
<1>1. DOMAIN pending = {}
  OBVIOUS
<1>2. TypeOK
  <2>1. pending = [s \in DOMAIN pending |-> pending[s]]
    OBVIOUS
  <2>2. closing \in BOOLEAN /\ shutdown \in BOOLEAN /\ sticky \in BOOLEAN
    OBVIOUS
  <2>3. QED
    BY <1>1, <2>1, <2>2 DEF TypeOK, Seqs, Request, Errors, InSend, Labels
<1>3. SendingOwned /\ Numbered /\ Labelled
  BY <1>1 DEF SendingOwned, InSend, Numbered, Labelled
<1>4. OneOwner /\ NotForgotten /\ Replied
  BY <1>1 DEF OneOwner, DoneOnce, NotForgotten, Replied
<1>5. OwnReply /\ ReturnedNotPending
  BY <1>1 DEF OwnReply, ReturnedNotPending
<1>6. QED
  BY <1>2, <1>3, <1>4, <1>5 DEF Inv

(* Every step preserves the inductive invariant: one step of the proof per  *)
(* action, and under it one per part of Inv the action can disturb.  The    *)
(* arguments with content: RegisterCall hands out a number above every      *)
(* number in use, ClaimCall and SendFailed take a call out of the map       *)
(* before they complete it, DeliverReply finds the answer to the claimed    *)
(* call's own arguments because the number it was claimed by is unique, and *)
(* TerminateCalls meets no sender between registerCall and the end of send. *)
LEMMA InvStep == Inv /\ [Next]_vars => Inv'
<1> SUFFICES ASSUME Inv, [Next]_vars PROVE Inv'
  OBVIOUS
<1> USE NoCallAssumption
    DEF callVars, netVars, recvVars, InSend, Labels, Seqs, Request, Answer,
        NoAnswer, Kinds, Errors, Broken
<1>1. ASSUME NEW c \in Calls, Go(c) PROVE Inv'
  <2>1. TypeOK'
    BY <1>1 DEF Inv, TypeOK, Go, Goto
  <2>2. SendingOwned'
    BY <1>1 DEF Inv, TypeOK, SendingOwned, Go, Goto
  <2>3. Numbered'
    BY <1>1 DEF Inv, TypeOK, Numbered, Go, Goto
  <2>4. ReturnedNotPending'
    BY <1>1 DEF Inv, TypeOK, ReturnedNotPending, Go, Goto
  <2>5. (Labelled /\ OneOwner /\ NotForgotten /\ Replied /\ OwnReply)'
    BY <1>1 DEF Inv, Labelled, OneOwner, DoneOnce, NotForgotten, Replied,
        OwnReply, Go
  <2>6. QED
    BY <2>1, <2>2, <2>3, <2>4, <2>5 DEF Inv
<1>2. ASSUME NEW c \in Calls, Expire(c) PROVE Inv'
  <2>1. TypeOK'
    BY <1>2 DEF Inv, TypeOK, Expire
  <2>2. (SendingOwned /\ Numbered /\ Labelled /\ OneOwner /\ NotForgotten /\
        Replied /\ OwnReply /\ ReturnedNotPending)'
    BY <1>2 DEF Inv, SendingOwned, Numbered, Labelled, OneOwner, DoneOnce,
        NotForgotten, Replied, OwnReply, ReturnedNotPending, Expire
  <2>3. QED
    BY <2>1, <2>2 DEF Inv
<1>3. ASSUME NEW c \in Calls, LockSending(c) PROVE Inv'
  <2>1. TypeOK'
    BY <1>3 DEF Inv, TypeOK, LockSending, SendingFree, Goto
  <2>2. SendingOwned'
    BY <1>3 DEF Inv, TypeOK, SendingOwned, LockSending, SendingFree, Goto
  <2>3. Numbered'
    BY <1>3 DEF Inv, TypeOK, Numbered, LockSending, SendingFree, Goto
  <2>4. ReturnedNotPending'
    BY <1>3 DEF Inv, TypeOK, ReturnedNotPending, LockSending, SendingFree,
        Goto
  <2>5. (Labelled /\ OneOwner /\ NotForgotten /\ Replied /\ OwnReply)'
    BY <1>3 DEF Inv, Labelled, OneOwner, DoneOnce, NotForgotten, Replied,
        OwnReply, LockSending
  <2>6. QED
    BY <2>1, <2>2, <2>3, <2>4, <2>5 DEF Inv
<1>4. ASSUME NEW c \in Calls, RegisterCall(c) PROVE Inv'
  <2>1. TypeOK'
    BY <1>4 DEF Inv, TypeOK, RegisterCall, MayRegister, WithEntry, Goto
  <2>2. SendingOwned'
    BY <1>4 DEF Inv, TypeOK, SendingOwned, RegisterCall, MayRegister,
        WithEntry, Goto
  <2>3. Numbered'
    BY <1>4 DEF Inv, TypeOK, Numbered, SendingOwned, RegisterCall,
        MayRegister, WithEntry, Goto
  <2>4. Labelled'
    BY <1>4 DEF Inv, TypeOK, Labelled, Numbered, RegisterCall, MayRegister,
        WithEntry, Goto
  <2>5. OneOwner'
    BY <1>4 DEF Inv, TypeOK, OneOwner, DoneOnce, Numbered, Labelled,
        RegisterCall, MayRegister, WithEntry, Goto
  <2>6. NotForgotten'
    BY <1>4 DEF Inv, TypeOK, NotForgotten, RegisterCall, MayRegister,
        WithEntry, Goto
  <2>7. ReturnedNotPending'
    BY <1>4 DEF Inv, TypeOK, ReturnedNotPending, Numbered, RegisterCall,
        MayRegister, WithEntry, Goto
  <2>8. (Replied /\ OwnReply)'
    BY <1>4 DEF Inv, Replied, OwnReply, RegisterCall
  <2>9. QED
    BY <2>1, <2>2, <2>3, <2>4, <2>5, <2>6, <2>7, <2>8 DEF Inv
<1>5. ASSUME NEW c \in Calls, RegisterRefused(c) PROVE Inv'
  <2>1. TypeOK'
    BY <1>5 DEF Inv, TypeOK, RegisterRefused, MayRegister, Finish, Goto
  <2>2. SendingOwned'
    BY <1>5 DEF Inv, TypeOK, SendingOwned, RegisterRefused, MayRegister,
        Finish, Goto
  <2>3. Numbered'
    BY <1>5 DEF Inv, TypeOK, Numbered, RegisterRefused, MayRegister, Finish,
        Goto
  <2>4. OneOwner'
    BY <1>5 DEF Inv, TypeOK, OneOwner, DoneOnce, Numbered, Labelled,
        RegisterRefused, MayRegister, Finish, Goto
  <2>5. NotForgotten'
    BY <1>5 DEF Inv, TypeOK, NotForgotten, Numbered, RegisterRefused,
        MayRegister, Finish, Goto
  <2>6. Replied'
    BY <1>5 DEF Inv, TypeOK, Replied, RegisterRefused, MayRegister, Finish,
        Goto
  <2>7. ReturnedNotPending'
    BY <1>5 DEF Inv, TypeOK, ReturnedNotPending, RegisterRefused, MayRegister,
        Finish, Goto
  <2>8. (Labelled /\ OwnReply)'
    BY <1>5 DEF Inv, Labelled, OwnReply, RegisterRefused
  <2>9. QED
    BY <2>1, <2>2, <2>3, <2>4, <2>5, <2>6, <2>7, <2>8 DEF Inv
<1>6. ASSUME NEW c \in Calls, WriteFlushed(c) PROVE Inv'
  <2>1. TypeOK'
    BY <1>6 DEF Inv, TypeOK, Numbered, WriteFlushed, Goto
  <2>2. SendingOwned'
    BY <1>6 DEF Inv, TypeOK, SendingOwned, WriteFlushed, Goto
  <2>3. Numbered'
    BY <1>6 DEF Inv, TypeOK, Numbered, WriteFlushed, Goto
  <2>4. Labelled'
    BY <1>6 DEF Inv, TypeOK, Labelled, Numbered, WriteFlushed, Goto
  <2>5. ReturnedNotPending'
    BY <1>6 DEF Inv, TypeOK, ReturnedNotPending, WriteFlushed, Goto
  <2>6. (OneOwner /\ NotForgotten /\ Replied /\ OwnReply)'
    BY <1>6 DEF Inv, OneOwner, DoneOnce, NotForgotten, Replied, OwnReply,
        WriteFlushed
  <2>7. QED
    BY <2>1, <2>2, <2>3, <2>4, <2>5, <2>6 DEF Inv
<1>7. ASSUME NEW c \in Calls, WriteHead(c) PROVE Inv'
  <2>1. TypeOK'
    BY <1>7 DEF Inv, TypeOK, Numbered, WriteHead, Goto
  <2>2. SendingOwned'
    BY <1>7 DEF Inv, TypeOK, SendingOwned, WriteHead, Goto
  <2>3. Numbered'
    BY <1>7 DEF Inv, TypeOK, Numbered, WriteHead, Goto
  <2>4. Labelled'
    BY <1>7 DEF Inv, TypeOK, Labelled, Numbered, WriteHead, Goto
  <2>5. ReturnedNotPending'
    BY <1>7 DEF Inv, TypeOK, ReturnedNotPending, WriteHead, Goto
  <2>6. (OneOwner /\ NotForgotten /\ Replied /\ OwnReply)'
    BY <1>7 DEF Inv, OneOwner, DoneOnce, NotForgotten, Replied, OwnReply,
        WriteHead
  <2>7. QED
    BY <2>1, <2>2, <2>3, <2>4, <2>5, <2>6 DEF Inv
<1>8. ASSUME NEW c \in Calls, WriteTail(c) PROVE Inv'
  <2>1. TypeOK'
    <3>1. sticky' \in BOOLEAN
      BY <1>8 DEF Inv, TypeOK, WriteTail, WriteToNobody
    <3>2. QED
      BY <1>8, <3>1 DEF Inv, TypeOK, WriteTail, Goto
  <2>2. SendingOwned'
    BY <1>8 DEF Inv, TypeOK, SendingOwned, WriteTail, WriteToNobody, Goto
  <2>3. Numbered'
    BY <1>8 DEF Inv, TypeOK, Numbered, WriteTail, WriteToNobody, Goto
  <2>4. ReturnedNotPending'
    BY <1>8 DEF Inv, TypeOK, ReturnedNotPending, WriteTail, WriteToNobody,
        Goto
  <2>5. (Labelled /\ OneOwner /\ NotForgotten /\ Replied /\ OwnReply)'
    BY <1>8 DEF Inv, Labelled, OneOwner, DoneOnce, NotForgotten, Replied,
        OwnReply, WriteTail
  <2>6. QED
    BY <2>1, <2>2, <2>3, <2>4, <2>5 DEF Inv
<1>9. ASSUME NEW c \in Calls, WriteLost(c) PROVE Inv'
  <2>1. TypeOK'
    <3>1. sticky' \in BOOLEAN
      BY <1>9 DEF Inv, TypeOK, WriteLost, WriteToNobody
    <3>2. QED
      BY <1>9, <3>1 DEF Inv, TypeOK, WriteLost, Goto
  <2>2. SendingOwned'
    BY <1>9 DEF Inv, TypeOK, SendingOwned, WriteLost, WriteToNobody, Goto
  <2>3. Numbered'
    BY <1>9 DEF Inv, TypeOK, Numbered, WriteLost, WriteToNobody, Goto
  <2>4. ReturnedNotPending'
    BY <1>9 DEF Inv, TypeOK, ReturnedNotPending, WriteLost, WriteToNobody,
        Goto
  <2>5. (Labelled /\ OneOwner /\ NotForgotten /\ Replied /\ OwnReply)'
    BY <1>9 DEF Inv, Labelled, OneOwner, DoneOnce, NotForgotten, Replied,
        OwnReply, WriteLost
  <2>6. QED
    BY <2>1, <2>2, <2>3, <2>4, <2>5 DEF Inv
<1>10. ASSUME NEW c \in Calls, WriteFails(c) PROVE Inv'
  <2>1. TypeOK'
    BY <1>10 DEF Inv, TypeOK, WriteFails, Goto
  <2>2. SendingOwned'
    BY <1>10 DEF Inv, TypeOK, SendingOwned, WriteFails, Goto
  <2>3. Numbered'
    BY <1>10 DEF Inv, TypeOK, Numbered, WriteFails, Goto
  <2>4. ReturnedNotPending'
    BY <1>10 DEF Inv, TypeOK, ReturnedNotPending, WriteFails, Goto
  <2>5. (Labelled /\ OneOwner /\ NotForgotten /\ Replied /\ OwnReply)'
    BY <1>10 DEF Inv, Labelled, OneOwner, DoneOnce, NotForgotten, Replied,
        OwnReply, WriteFails
  <2>6. QED
    BY <2>1, <2>2, <2>3, <2>4, <2>5 DEF Inv
<1>11. ASSUME NEW c \in Calls, SendFailed(c) PROVE Inv'
  <2>1. TypeOK'
    BY <1>11 DEF Inv, TypeOK, SendFailed, Finish, CallAt, RemoveCall,
        Restrict, Goto
  <2>2. SendingOwned'
    BY <1>11 DEF Inv, TypeOK, SendingOwned, SendFailed, Finish, CallAt,
        RemoveCall, Restrict, Goto
  <2>3. Numbered'
    BY <1>11 DEF Inv, TypeOK, Numbered, SendFailed, Finish, CallAt,
        RemoveCall, Restrict, Goto
  <2>4. OneOwner'
    BY <1>11 DEF Inv, TypeOK, OneOwner, DoneOnce, Numbered, SendFailed,
        Finish, CallAt, RemoveCall, Restrict, Goto
  <2>5. NotForgotten'
    BY <1>11 DEF Inv, TypeOK, NotForgotten, Numbered, OneOwner, DoneOnce,
        SendFailed, Finish, CallAt, RemoveCall, Restrict, Goto
  <2>6. Replied'
    BY <1>11 DEF Inv, TypeOK, Replied, SendFailed, Finish, CallAt, RemoveCall,
        Restrict, Goto
  <2>7. ReturnedNotPending'
    BY <1>11 DEF Inv, TypeOK, ReturnedNotPending, SendFailed, Finish, CallAt,
        RemoveCall, Restrict, Goto
  <2>8. (Labelled /\ OwnReply)'
    BY <1>11 DEF Inv, Labelled, OwnReply, SendFailed
  <2>9. QED
    BY <2>1, <2>2, <2>3, <2>4, <2>5, <2>6, <2>7, <2>8 DEF Inv
<1>12. ASSUME NEW c \in Calls, ReturnDone(c) PROVE Inv'
  <2>1. TypeOK'
    BY <1>12 DEF Inv, TypeOK, ReturnDone, Goto
  <2>2. SendingOwned'
    BY <1>12 DEF Inv, TypeOK, SendingOwned, ReturnDone, Goto
  <2>3. Numbered'
    BY <1>12 DEF Inv, TypeOK, Numbered, ReturnDone, Goto
  <2>4. NotForgotten'
    BY <1>12 DEF Inv, TypeOK, NotForgotten, OneOwner, DoneOnce, ReturnDone,
        Goto
  <2>5. OwnReply'
    BY <1>12 DEF Inv, TypeOK, OwnReply, Replied, ReturnDone, Goto
  <2>6. ReturnedNotPending'
    BY <1>12 DEF Inv, TypeOK, ReturnedNotPending, Numbered, OneOwner,
        DoneOnce, ReturnDone, Goto
  <2>7. (Labelled /\ OneOwner /\ Replied)'
    BY <1>12 DEF Inv, Labelled, OneOwner, DoneOnce, Replied, ReturnDone
  <2>8. QED
    BY <2>1, <2>2, <2>3, <2>4, <2>5, <2>6, <2>7 DEF Inv
<1>13. ASSUME NEW c \in Calls, TakeExpired(c) PROVE Inv'
  <2>1. TypeOK'
    BY <1>13 DEF Inv, TypeOK, TakeExpired, Goto
  <2>2. SendingOwned'
    BY <1>13 DEF Inv, TypeOK, SendingOwned, TakeExpired, Goto
  <2>3. Numbered'
    BY <1>13 DEF Inv, TypeOK, Numbered, TakeExpired, Goto
  <2>4. ReturnedNotPending'
    BY <1>13 DEF Inv, TypeOK, ReturnedNotPending, TakeExpired, Goto
  <2>5. (Labelled /\ OneOwner /\ NotForgotten /\ Replied /\ OwnReply)'
    BY <1>13 DEF Inv, Labelled, OneOwner, DoneOnce, NotForgotten, Replied,
        OwnReply, TakeExpired
  <2>6. QED
    BY <2>1, <2>2, <2>3, <2>4, <2>5 DEF Inv
<1>14. ASSUME NEW c \in Calls, ReturnExpired(c) PROVE Inv'
  <2>1. TypeOK'
    BY <1>14 DEF Inv, TypeOK, ReturnExpired, Withdrawn, RemoveCall, Restrict,
        Goto
  <2>2. SendingOwned'
    BY <1>14 DEF Inv, TypeOK, SendingOwned, ReturnExpired, Withdrawn,
        RemoveCall, Restrict, Goto
  <2>3. Numbered'
    BY <1>14 DEF Inv, TypeOK, Numbered, ReturnExpired, Withdrawn, RemoveCall,
        Restrict, Goto
  <2>4. OneOwner'
    BY <1>14 DEF Inv, TypeOK, OneOwner, DoneOnce, ReturnExpired, Withdrawn,
        RemoveCall, Restrict, Goto
  <2>5. NotForgotten'
    BY <1>14 DEF Inv, TypeOK, NotForgotten, Numbered, ReturnExpired,
        Withdrawn, RemoveCall, Restrict, Goto
  <2>6. OwnReply'
    BY <1>14 DEF Inv, TypeOK, OwnReply, ReturnExpired, Withdrawn, RemoveCall,
        Restrict, Goto
  <2>7. ReturnedNotPending'
    BY <1>14 DEF Inv, TypeOK, ReturnedNotPending, ReturnExpired, Withdrawn,
        RemoveCall, Restrict, Goto
  <2>8. (Labelled /\ Replied)'
    BY <1>14 DEF Inv, Labelled, Replied, ReturnExpired
  <2>9. QED
    BY <2>1, <2>2, <2>3, <2>4, <2>5, <2>6, <2>7, <2>8 DEF Inv
<1>15. ASSUME Close PROVE Inv'
  <2>1. TypeOK'
    BY <1>15 DEF Inv, TypeOK, Close
  <2>2. (SendingOwned /\ Numbered /\ Labelled /\ OneOwner /\ NotForgotten /\
        Replied /\ OwnReply /\ ReturnedNotPending)'
    BY <1>15 DEF Inv, SendingOwned, Numbered, Labelled, OneOwner, DoneOnce,
        NotForgotten, Replied, OwnReply, ReturnedNotPending, Close
  <2>3. QED
    BY <2>1, <2>2 DEF Inv
<1>16. ASSUME ReadHeader PROVE Inv'
  <2>1. TypeOK'
    BY <1>16 DEF Inv, TypeOK, ReadHeader
  <2>2. Labelled'
    BY <1>16 DEF Inv, TypeOK, Labelled, ReadHeader
  <2>3. OneOwner'
    BY <1>16 DEF Inv, TypeOK, OneOwner, DoneOnce, ReadHeader
  <2>4. (SendingOwned /\ Numbered /\ NotForgotten /\ Replied /\ OwnReply /\
        ReturnedNotPending)'
    BY <1>16 DEF Inv, SendingOwned, Numbered, NotForgotten, Replied, OwnReply,
        ReturnedNotPending, ReadHeader
  <2>5. QED
    BY <2>1, <2>2, <2>3, <2>4 DEF Inv
<1>17. ASSUME ReadHeaderFails PROVE Inv'
  <2>1. TypeOK'
    BY <1>17 DEF Inv, TypeOK, ReadHeaderFails
  <2>2. Labelled'
    BY <1>17 DEF Inv, TypeOK, Labelled, ReadHeaderFails
  <2>3. OneOwner'
    BY <1>17 DEF Inv, TypeOK, OneOwner, DoneOnce, ReadHeaderFails
  <2>4. (SendingOwned /\ Numbered /\ NotForgotten /\ Replied /\ OwnReply /\
        ReturnedNotPending)'
    BY <1>17 DEF Inv, SendingOwned, Numbered, NotForgotten, Replied, OwnReply,
        ReturnedNotPending, ReadHeaderFails
  <2>5. QED
    BY <2>1, <2>2, <2>3, <2>4 DEF Inv
<1>18. ASSUME ClaimCall PROVE Inv'
  <2>1. TypeOK'
    BY <1>18 DEF Inv, TypeOK, ClaimCall, CallAt, TakenOut, RemoveCall,
        Restrict
  <2>2. Numbered'
    BY <1>18 DEF Inv, TypeOK, Numbered, ClaimCall, CallAt, TakenOut,
        RemoveCall, Restrict
  <2>3. Labelled'
    BY <1>18 DEF Inv, TypeOK, Labelled, ClaimCall, CallAt, TakenOut,
        RemoveCall, Restrict
  <2>4. OneOwner'
    BY <1>18 DEF Inv, TypeOK, OneOwner, DoneOnce, Numbered, ClaimCall, CallAt,
        TakenOut, RemoveCall, Restrict
  <2>5. NotForgotten'
    BY <1>18 DEF Inv, TypeOK, NotForgotten, Numbered, OneOwner, DoneOnce,
        ClaimCall, CallAt, TakenOut, RemoveCall, Restrict
  <2>6. ReturnedNotPending'
    BY <1>18 DEF Inv, TypeOK, ReturnedNotPending, ClaimCall, CallAt, TakenOut,
        RemoveCall, Restrict
  <2>7. (SendingOwned /\ Replied /\ OwnReply)'
    BY <1>18 DEF Inv, SendingOwned, Replied, OwnReply, ClaimCall
  <2>8. QED
    BY <2>1, <2>2, <2>3, <2>4, <2>5, <2>6, <2>7 DEF Inv
<1>19. ASSUME DropAnswer PROVE Inv'
  <2>1. TypeOK'
    BY <1>19 DEF Inv, TypeOK, DropAnswer, NextHeader
  <2>2. Labelled'
    BY <1>19 DEF Inv, TypeOK, Labelled, DropAnswer, NextHeader
  <2>3. OneOwner'
    BY <1>19 DEF Inv, TypeOK, OneOwner, DoneOnce, DropAnswer, NextHeader
  <2>4. (SendingOwned /\ Numbered /\ NotForgotten /\ Replied /\ OwnReply /\
        ReturnedNotPending)'
    BY <1>19 DEF Inv, SendingOwned, Numbered, NotForgotten, Replied, OwnReply,
        ReturnedNotPending, DropAnswer
  <2>5. QED
    BY <2>1, <2>2, <2>3, <2>4 DEF Inv
<1>20. ASSUME DeliverError PROVE Inv'
  <2>1. TypeOK'
    BY <1>20 DEF Inv, TypeOK, DeliverError, NextHeader, Finish
  <2>2. Numbered'
    BY <1>20 DEF Inv, TypeOK, Numbered, Labelled, OneOwner, DoneOnce,
        DeliverError, NextHeader, Finish
  <2>3. Labelled'
    BY <1>20 DEF Inv, TypeOK, Labelled, DeliverError, NextHeader, Finish
  <2>4. OneOwner'
    BY <1>20 DEF Inv, TypeOK, OneOwner, DoneOnce, Numbered, DeliverError,
        NextHeader, Finish
  <2>5. NotForgotten'
    BY <1>20 DEF Inv, TypeOK, NotForgotten, OneOwner, DoneOnce, DeliverError,
        NextHeader, Finish
  <2>6. Replied'
    BY <1>20 DEF Inv, TypeOK, Replied, DeliverError, NextHeader, Finish
  <2>7. (SendingOwned /\ OwnReply /\ ReturnedNotPending)'
    BY <1>20 DEF Inv, SendingOwned, OwnReply, ReturnedNotPending, DeliverError
  <2>8. QED
    BY <2>1, <2>2, <2>3, <2>4, <2>5, <2>6, <2>7 DEF Inv
<1>21. ASSUME DeliverReply PROVE Inv'
  <2>1. TypeOK'
    BY <1>21 DEF Inv, TypeOK, DeliverReply, Finish
  <2>2. Numbered'
    BY <1>21 DEF Inv, TypeOK, Numbered, OneOwner, DoneOnce, DeliverReply,
        Finish
  <2>3. Labelled'
    BY <1>21 DEF Inv, TypeOK, Labelled, DeliverReply, Finish
  <2>4. OneOwner'
    BY <1>21 DEF Inv, TypeOK, OneOwner, DoneOnce, Numbered, DeliverReply,
        Finish
  <2>5. NotForgotten'
    BY <1>21 DEF Inv, TypeOK, NotForgotten, OneOwner, DoneOnce, DeliverReply,
        Finish
  <2>6. Replied'
    BY <1>21 DEF Inv, TypeOK, Replied, Numbered, Labelled, OneOwner, DoneOnce,
        DeliverReply, Finish
  <2>7. OwnReply'
    BY <1>21 DEF Inv, TypeOK, OwnReply, Numbered, Labelled, OneOwner,
        DoneOnce, DeliverReply, Finish
  <2>8. (SendingOwned /\ ReturnedNotPending)'
    BY <1>21 DEF Inv, SendingOwned, ReturnedNotPending, DeliverReply
  <2>9. QED
    BY <2>1, <2>2, <2>3, <2>4, <2>5, <2>6, <2>7, <2>8 DEF Inv
<1>22. ASSUME DeliverBadBody PROVE Inv'
  <2>1. TypeOK'
    BY <1>22 DEF Inv, TypeOK, DeliverBadBody, Finish
  <2>2. Numbered'
    BY <1>22 DEF Inv, TypeOK, Numbered, OneOwner, DoneOnce, DeliverBadBody,
        Finish
  <2>3. Labelled'
    BY <1>22 DEF Inv, TypeOK, Labelled, DeliverBadBody, Finish
  <2>4. OneOwner'
    BY <1>22 DEF Inv, TypeOK, OneOwner, DoneOnce, Numbered, DeliverBadBody,
        Finish
  <2>5. NotForgotten'
    BY <1>22 DEF Inv, TypeOK, NotForgotten, OneOwner, DoneOnce,
        DeliverBadBody, Finish
  <2>6. Replied'
    BY <1>22 DEF Inv, TypeOK, Replied, DeliverBadBody, Finish
  <2>7. (SendingOwned /\ OwnReply /\ ReturnedNotPending)'
    BY <1>22 DEF Inv, SendingOwned, OwnReply, ReturnedNotPending,
        DeliverBadBody
  <2>8. QED
    BY <2>1, <2>2, <2>3, <2>4, <2>5, <2>6, <2>7 DEF Inv
<1>23. ASSUME TerminateCalls PROVE Inv'
  <2>1. TypeOK'
    BY <1>23 DEF Inv, TypeOK, TerminateCalls, Notified, Finish, Range,
        SendersExcluded
  <2>2. Numbered'
    BY <1>23 DEF Inv, TypeOK, Numbered, SendingOwned, TerminateCalls,
        Notified, Finish, Range, SendersExcluded
  <2>3. Labelled'
    BY <1>23 DEF Inv, TypeOK, Labelled, TerminateCalls, Notified, Finish,
        Range, SendersExcluded
  <2>4. OneOwner'
    BY <1>23 DEF Inv, TypeOK, OneOwner, DoneOnce, TerminateCalls, Notified,
        Finish, Range, SendersExcluded
  <2>5. NotForgotten'
    BY <1>23 DEF Inv, TypeOK, NotForgotten, Numbered, OneOwner, DoneOnce,
        TerminateCalls, Notified, Finish, Range, SendersExcluded
  <2>6. Replied'
    BY <1>23 DEF Inv, TypeOK, Replied, TerminateCalls, Notified, Finish,
        Range, SendersExcluded
  <2>7. ReturnedNotPending'
    BY <1>23 DEF Inv, TypeOK, ReturnedNotPending, TerminateCalls, Notified,
        Finish, Range, SendersExcluded
  <2>8. (SendingOwned /\ OwnReply)'
    BY <1>23 DEF Inv, SendingOwned, OwnReply, TerminateCalls
  <2>9. QED
    BY <2>1, <2>2, <2>3, <2>4, <2>5, <2>6, <2>7, <2>8 DEF Inv
<1>24. ASSUME NEW r \in wire, PeerReads(r) PROVE Inv'
  <2>1. TypeOK'
    BY <1>24 DEF Inv, TypeOK, PeerReads
  <2>2. Labelled'
    BY <1>24 DEF Inv, TypeOK, Labelled, PeerReads
  <2>3. (SendingOwned /\ Numbered /\ OneOwner /\ NotForgotten /\ Replied /\
        OwnReply /\ ReturnedNotPending)'
    BY <1>24 DEF Inv, SendingOwned, Numbered, OneOwner, DoneOnce,
        NotForgotten, Replied, OwnReply, ReturnedNotPending, PeerReads
  <2>4. QED
    BY <2>1, <2>2, <2>3 DEF Inv
<1>25. ASSUME NEW r \in served, NEW kind \in Kinds, PeerAnswers(r, kind) PROVE Inv'
  <2>1. TypeOK'
    BY <1>25 DEF Inv, TypeOK, PeerAnswers
  <2>2. Labelled'
    BY <1>25 DEF Inv, TypeOK, Labelled, PeerAnswers
  <2>3. (SendingOwned /\ Numbered /\ OneOwner /\ NotForgotten /\ Replied /\
        OwnReply /\ ReturnedNotPending)'
    BY <1>25 DEF Inv, SendingOwned, Numbered, OneOwner, DoneOnce,
        NotForgotten, Replied, OwnReply, ReturnedNotPending, PeerAnswers
  <2>4. QED
    BY <2>1, <2>2, <2>3 DEF Inv
<1>26. ASSUME PeerGone PROVE Inv'
  <2>1. TypeOK'
    BY <1>26 DEF Inv, TypeOK, PeerGone
  <2>2. (SendingOwned /\ Numbered /\ Labelled /\ OneOwner /\ NotForgotten /\
        Replied /\ OwnReply /\ ReturnedNotPending)'
    BY <1>26 DEF Inv, SendingOwned, Numbered, Labelled, OneOwner, DoneOnce,
        NotForgotten, Replied, OwnReply, ReturnedNotPending, PeerGone
  <2>3. QED
    BY <2>1, <2>2 DEF Inv
<1>27. CASE UNCHANGED vars
  BY <1>27 DEF Inv, vars, TypeOK, SendingOwned, Numbered, Labelled, OneOwner,
      DoneOnce, NotForgotten, Replied, OwnReply, ReturnedNotPending
<1>28. QED
  BY <1>1, <1>2, <1>3, <1>4, <1>5, <1>6, <1>7, <1>8, <1>9, <1>10, <1>11,
      <1>12, <1>13, <1>14, <1>15, <1>16, <1>17, <1>18, <1>19, <1>20, <1>21,
      <1>22, <1>23, <1>24, <1>25, <1>26, <1>27 DEF Next, Caller, Receive,
      Peer, Ended

(* Inv holds in every reachable state.                                      *)
THEOREM Invariance == Spec => []Inv
<1>1. Init => Inv
  BY InvInit
<1>2. Inv /\ [Next]_vars => Inv'
  BY InvStep
<1>3. QED
  BY <1>1, <1>2, PTL DEF Spec

(* Every variable keeps its type, with sequence numbers starting at 1.      *)
THEOREM TypeCorrect == Spec => []TypeOK
<1>1. Inv => TypeOK
  BY DEF Inv
<1>2. QED
  BY <1>1, Invariance, PTL

(* No call is completed twice, however sender, receive and terminateCalls   *)
(* interleave.                                                              *)
THEOREM CompletedOnce == Spec => []DoneOnce
<1>1. Inv => DoneOnce
  BY DEF Inv, OneOwner
<1>2. QED
  BY <1>1, Invariance, PTL

(* Replies are never crossed between the callers of one client.             *)
THEOREM RepliesNotCrossed == Spec => []OwnReply
<1>1. Inv => OwnReply
  BY DEF Inv
<1>2. QED
  BY <1>1, Invariance, PTL

(* terminateCalls leaves no registered call waiting: receive has nothing in *)
(* its hands any more, and no call can enter the map afterwards.            *)
THEOREM NobodyForgotten == Spec => []ShutdownSettlesAll
<1>1. Inv => ShutdownSettlesAll
  <2> SUFFICES ASSUME Inv, shutdown, NEW c \in Calls, callSeq[c] # 0
               PROVE  done[c] = 1 \/ ret[c] = "timeout"
    BY DEF ShutdownSettlesAll
  <2>1. claimed = NoCall
    BY DEF Inv, OneOwner
  <2>2. QED
    BY <2>1, NoCallAssumption DEF Inv, NotForgotten
<1>2. QED
  BY <1>1, Invariance, PTL

(* A call that has returned is not in the map of a live client.             *)
THEOREM MapForgetsReturned == Spec => []ReturnedNotPending
<1>1. Inv => ReturnedNotPending
  BY DEF Inv
<1>2. QED
  BY <1>1, Invariance, PTL

(* Nothing is written to a call after it was handed to its user.            *)
THEOREM HandedOver == Spec => DoneHandsOver
<1>1. Inv /\ [Next]_vars
        => \A c \in Calls : done[c] > 0 => reply'[c] = reply[c] /\ callErr'[c] = callErr[c]
  <2> SUFFICES ASSUME Inv, [Next]_vars, NEW c \in Calls, done[c] > 0
               PROVE  reply'[c] = reply[c] /\ callErr'[c] = callErr[c]
    OBVIOUS
  <2> USE DEF callVars, netVars, recvVars
  <2>1. ASSUME NEW d \in Calls, RegisterRefused(d) PROVE d # c
    BY <2>1 DEF Inv, TypeOK, Numbered, RegisterRefused
  <2>2. ASSUME NEW d \in Calls, SendFailed(d) PROVE CallAt(callSeq[d]) # c
    BY <2>2, NoCallAssumption DEF Inv, TypeOK, Numbered, OneOwner, SendFailed, CallAt
  <2>3. claimed = c => FALSE
    BY NoCallAssumption DEF Inv, TypeOK, OneOwner
  <2>4. TerminateCalls => c \notin Notified
    BY DEF Inv, TypeOK, OneOwner, TerminateCalls, Notified, Range
  <2>5. ASSUME NEW d \in Calls, Caller(d)
        PROVE  reply'[c] = reply[c] /\ callErr'[c] = callErr[c]
    BY <2>1, <2>2, <2>5
    DEF Inv, TypeOK, Caller, Finish, LockSending, RegisterCall, RegisterRefused,
        WriteFlushed, WriteHead, WriteTail, WriteLost, WriteFails, SendFailed,
        ReturnDone, TakeExpired, ReturnExpired
  <2>6. ASSUME Receive
        PROVE  reply'[c] = reply[c] /\ callErr'[c] = callErr[c]
    BY <2>3, <2>4, <2>6
    DEF Inv, TypeOK, Receive, Finish, ReadHeader, ReadHeaderFails, ClaimCall,
        DropAnswer, DeliverError, DeliverReply, DeliverBadBody, TerminateCalls
  <2>7. QED
    BY <2>5, <2>6
    DEF Next, vars, Peer, Go, Expire, Close, PeerReads, PeerAnswers, PeerGone, Ended
<1>2. QED
  BY <1>1, Invariance, PTL DEF Spec, DoneHandsOver

-----------------------------------------------------------------------------
(* RpcClient implements RpcCalls: every step is one of what the users see,  *)
(* or none.                                                                 *)

LEMMA WaitingInvariance == Spec => []Waiting
<1>1. Init => Waiting
  BY DEF Init, Waiting
<1>2. Inv /\ Waiting /\ [Next]_vars => Waiting'
  <2> SUFFICES ASSUME Inv, Waiting, [Next]_vars PROVE Waiting'
    OBVIOUS
  <2> USE DEF Inv, TypeOK, Waiting, callVars, netVars, recvVars
  <2>1. ASSUME NEW d \in Calls, done'[d] = done[d] \/ done'[d] = done[d] + 1
        PROVE  done[d] > 0 => done'[d] > 0
    BY <2>1
  <2>2. ASSUME NEW S, NEW err, Finish(S, err), NEW d \in Calls PROVE done[d] > 0 => done'[d] > 0
    BY <2>2 DEF Finish
  <2>3. ASSUME NEW c \in Calls, Go(c) \/ Expire(c) PROVE Waiting'
    BY <2>3 DEF Go, Goto, Expire
  <2>4. ASSUME NEW c \in Calls, Caller(c) PROVE Waiting'
    <3>1. CASE LockSending(c) \/ RegisterCall(c) \/ WriteHead(c) \/ WriteFails(c) \/ TakeExpired(c)
      BY <3>1 DEF LockSending, RegisterCall, WriteHead, WriteFails, TakeExpired, Goto, Seqs
    <3>2. CASE WriteFlushed(c) \/ WriteTail(c) \/ WriteLost(c)
      BY <3>2 DEF WriteFlushed, WriteTail, WriteLost, Goto, Numbered
    <3>3. CASE RegisterRefused(c)
      BY <3>3 DEF RegisterRefused, Goto, Finish
    <3>4. CASE SendFailed(c)
      BY <3>4, <2>2 DEF SendFailed, Goto, Numbered
    <3>5. CASE ReturnDone(c) \/ ReturnExpired(c)
      BY <3>5 DEF ReturnDone, ReturnExpired, Goto
    <3>6. QED
      BY <2>4, <3>1, <3>2, <3>3, <3>4, <3>5 DEF Caller
  <2>5. CASE Receive
    <3>1. \A d \in Calls : done[d] > 0 => done'[d] > 0
      BY <2>5, <2>2 DEF Receive, ReadHeader, ReadHeaderFails, ClaimCall, DropAnswer, DeliverError,
         DeliverReply, DeliverBadBody, TerminateCalls
    <3>2. UNCHANGED <<pc, callSeq, expired, ret>>
      BY <2>5 DEF Receive, ReadHeader, ReadHeaderFails, ClaimCall, DropAnswer, DeliverError,
         DeliverReply, DeliverBadBody, TerminateCalls
    <3>3. QED
      BY <3>1, <3>2
  <2>6. CASE Close \/ Peer \/ Ended \/ UNCHANGED vars
    BY <2>6 DEF Close, Peer, PeerReads, PeerAnswers, PeerGone, Ended, vars
  <2>7. QED
    BY <2>3, <2>4, <2>5, <2>6 DEF Next
<1>3. QED
  BY <1>1, <1>2, Invariance, PTL DEF Spec

(* Once the connection is lost nobody waits in a circle, nor for who has    *)
(* ended: the holder of `sending' is inside send, and a call that still     *)
(* waits for its completion has a receive that will come to it.             *)
THEOREM NoEndlessWaits == Spec => []WaitsEnd
<1>1. Inv /\ Waiting => WaitsEnd
  <2> SUFFICES ASSUME Inv, Waiting, Broken, NEW c \in Calls, pc[c] \notin {"idle", "returned"},
                      ~CallerGoes(c)
               PROVE  LET HolderGoes == sending # NoCall /\ CallerGoes(sending)
                      IN  \/ pc[c] = "lock" /\ HolderGoes
                          \/ pc[c] = "wait" /\ (ReceiveGoes \/ (rpc = "terminate" /\ HolderGoes))
    BY DEF WaitsEnd
  <2>1. sending # NoCall => CallerGoes(sending)
    BY DEF Inv, TypeOK, SendingOwned, CallerGoes
  <2>2. CASE pc[c] = "lock"
    BY <2>1, <2>2 DEF CallerGoes
  <2>3. CASE pc[c] = "wait"
    <3>1. callSeq[c] # 0 /\ done[c] = 0 /\ ret[c] = "none"
      BY <2>3 DEF CallerGoes, Waiting, Inv, TypeOK
    <3>2. rpc # "stopped"
      BY <3>1, NoCallAssumption DEF Inv, NotForgotten, OneOwner
    <3>3. QED
      BY <2>1, <2>3, <3>2 DEF ReceiveGoes, Inv, TypeOK
  <2>4. QED
    BY <2>2, <2>3 DEF CallerGoes, Inv, TypeOK, Labels
<1>2. QED
  BY <1>1, Invariance, WaitingInvariance, PTL

LEMMA SeenInit == Init => Seen!Init
  BY DEF Init, Seen!Init, call, outcome, returned, CallOf, RetOf

(* A caller that moves is seen to move, or not.                             *)
LEMMA SeenMove ==
  ASSUME TypeOK, NEW c \in Calls, NEW label \in Labels, Goto(c, label)
  PROVE  call' = [call EXCEPT ![c] = CallOf(label)]
  BY DEF TypeOK, Goto, call, CallOf, Labels, InSend

LEMMA SeenReturn ==
  ASSUME TypeOK, NEW c \in Calls, NEW r, ret' = [ret EXCEPT ![c] = r]
  PROVE  returned' = [returned EXCEPT ![c] = RetOf(r)]
  BY DEF TypeOK, returned, RetOf

(* Calls completed for the first time are seen to have their outcome.       *)
LEMMA SeenFinish ==
  ASSUME TypeOK, NEW S \in SUBSET Calls, NEW err \in Errors, \A c \in S : done[c] = 0, Finish(S, err)
  PROVE  outcome' = [c \in Calls |-> IF c \in S THEN OutcomeOf(err) ELSE outcome[c]]
<1>1. ASSUME NEW c \in Calls
      PROVE  outcome'[c] = IF c \in S THEN OutcomeOf(err) ELSE outcome[c]
  BY DEF TypeOK, Finish, outcome
<1>2. QED
  BY <1>1 DEF outcome

LEMMA SeenCaller ==
  ASSUME Inv, Waiting, NEW c \in Calls, Go(c) \/ Caller(c) \/ Expire(c)
  PROVE  [Seen!Next]_Seen!vars
<1> USE DEF Inv, callVars, netVars, recvVars
<1>0. /\ call \in [Calls -> {"idle", "send", "wait", "returned"}]
      /\ call[c] = CallOf(pc[c])
      /\ outcome[c] = IF done[c] = 0 THEN "none" ELSE OutcomeOf(callErr[c])
  BY DEF TypeOK, call, outcome, CallOf, Labels, InSend
<1>1. CASE Go(c)
  <2>1. Seen!Start(c)
    <3>1. call' = [call EXCEPT ![c] = "send"]
      BY <1>1, SeenMove DEF Go, CallOf, Labels
    <3>2. call[c] = "idle" /\ UNCHANGED <<closing, shutdown, outcome, reply, expired, returned>>
      BY <1>0, <1>1 DEF Go, CallOf, outcome, returned
    <3>3. QED
      BY <3>1, <3>2 DEF Seen!Start, Seen!Goto
  <2>2. QED
    BY <2>1 DEF Seen!Next
<1>2. CASE LockSending(c) \/ RegisterCall(c) \/ WriteHead(c) \/ WriteFails(c) \/ TakeExpired(c)
  <2>1. PICK label \in Labels : Goto(c, label) /\ CallOf(label) = CallOf(pc[c])
    BY <1>2 DEF LockSending, RegisterCall, WriteHead, WriteFails, TakeExpired, CallOf, Labels, InSend
  <2>2. call' = call
    BY <2>1, <1>0, SeenMove
  <2>3. UNCHANGED <<closing, shutdown, outcome, reply, expired, returned>>
    BY <1>2 DEF LockSending, RegisterCall, WriteHead, WriteFails, TakeExpired, outcome, returned
  <2>4. QED
    BY <2>2, <2>3 DEF Seen!vars
<1>3. CASE WriteFlushed(c) \/ WriteTail(c) \/ WriteLost(c)
  <2>1. pc[c] \in {"write", "tail"} /\ Goto(c, "wait")
    BY <1>3 DEF WriteFlushed, WriteTail, WriteLost
  <2>2. call[c] = "send" /\ call' = [call EXCEPT ![c] = "wait"] /\ ~shutdown
    BY <1>0, <2>1, SeenMove DEF CallOf, Labels, Numbered
  <2>3. UNCHANGED <<closing, shutdown, outcome, reply, expired, returned>>
    BY <1>3 DEF WriteFlushed, WriteTail, WriteLost, outcome, returned
  <2>4. Seen!Written(c)
    BY <2>2, <2>3 DEF Seen!Written, Seen!Goto
  <2>5. QED
    BY <2>4 DEF Seen!Next
<1>4. ASSUME NEW err \in Errors \ {"nil"}, pc[c] \in InSend, done[c] = 0, Goto(c, "wait"), Finish({c}, err),
             UNCHANGED <<closing, shutdown, reply, expired, ret>>
      PROVE  Seen!Next
  <2>1. call[c] = "send" /\ call' = [call EXCEPT ![c] = "wait"]
    BY <1>0, <1>4, SeenMove DEF CallOf, Labels, InSend
  <2>2. outcome' = [d \in Calls |-> IF d \in {c} THEN OutcomeOf(err) ELSE outcome[d]]
    BY <1>4, SeenFinish
  <2>3. outcome' = [outcome EXCEPT ![c] = "failed"] /\ outcome[c] = "none"
    BY <1>0, <1>4, <2>2 DEF outcome, OutcomeOf
  <2>4. Seen!Refused(c)
    BY <1>4, <2>1, <2>3 DEF Seen!Refused, Seen!Goto, returned
  <2>5. QED
    BY <2>4 DEF Seen!Next
<1>5. CASE RegisterRefused(c)
  <2>1. pc[c] \in InSend /\ done[c] = 0 /\ Goto(c, "wait") /\ Finish({c}, "shutdown")
    BY <1>5 DEF RegisterRefused, InSend, Numbered
  <2>2. UNCHANGED <<closing, shutdown, reply, expired, ret>>
    BY <1>5 DEF RegisterRefused
  <2>3. QED
    BY <1>4, <2>1, <2>2 DEF Errors
<1>6. CASE SendFailed(c)
  <2> DEFINE s == callSeq[c]
  <2>1. pc[c] = "failed" /\ Goto(c, "wait") /\ UNCHANGED <<closing, shutdown, reply, expired, ret>>
    BY <1>6 DEF SendFailed
  <2>2. ~shutdown
    BY <2>1 DEF Numbered
  <2>3. CASE s \in DOMAIN pending
    <3>1. pending[s] = c /\ done[c] = 0
      <4>1. s # 0 /\ pending[s] \in Calls
        BY <2>3 DEF TypeOK, Seqs
      <4>2. callSeq[pending[s]] = s
        BY <2>3 DEF Numbered
      <4>3. pending[s] = c
        BY <4>1, <4>2 DEF Numbered
      <4>4. QED
        BY <2>2, <2>3, <4>3 DEF OneOwner
    <3>2. Finish({c}, "write")
      <4>1. {CallAt(s)} \cap Calls = {c}
        BY <2>3, <3>1 DEF CallAt
      <4>2. QED
        BY <1>6, <4>1 DEF SendFailed
    <3>3. QED
      BY <1>4, <2>1, <3>1, <3>2 DEF Errors, InSend
  <2>4. CASE s \notin DOMAIN pending
    <3>1. {CallAt(s)} \cap Calls = {}
      BY <2>4, NoCallAssumption DEF CallAt
    <3>2. Finish({}, "write")
      BY <1>6, <3>1 DEF SendFailed
    <3>3. outcome' = outcome
      BY <3>2 DEF Finish, TypeOK, outcome
    <3>4. call[c] = "send" /\ call' = [call EXCEPT ![c] = "wait"]
      BY <1>0, <2>1, SeenMove DEF CallOf, Labels
    <3>5. Seen!Written(c)
      BY <2>1, <2>2, <3>3, <3>4 DEF Seen!Written, Seen!Goto, returned
    <3>6. QED
      BY <3>5 DEF Seen!Next
  <2>5. QED
    BY <2>3, <2>4
<1>7. CASE ReturnDone(c)
  <2>1. call[c] = "wait" /\ call' = [call EXCEPT ![c] = "returned"]
    BY <1>0, <1>7, SeenMove DEF ReturnDone, CallOf, Labels
  <2>2. outcome[c] = OutcomeOf(callErr[c]) /\ outcome[c] # "none" /\ RetOf(callErr[c]) = OutcomeOf(callErr[c])
    BY <1>0, <1>7 DEF TypeOK, ReturnDone, OutcomeOf, RetOf, Errors
  <2>3. returned' = [returned EXCEPT ![c] = outcome[c]]
    BY <1>7, <2>2, SeenReturn DEF ReturnDone
  <2>4. UNCHANGED <<closing, shutdown, outcome, reply, expired>>
    BY <1>7 DEF ReturnDone, outcome
  <2>5. Seen!Return(c)
    BY <2>1, <2>2, <2>3, <2>4 DEF Seen!Return, Seen!Goto
  <2>6. QED
    BY <2>5 DEF Seen!Next
<1>8. CASE ReturnExpired(c)
  <2>1. call[c] = "wait" /\ call' = [call EXCEPT ![c] = "returned"] /\ expired[c]
    BY <1>0, <1>8, SeenMove DEF ReturnExpired, CallOf, Labels, Waiting
  <2>2. returned' = [returned EXCEPT ![c] = "cancelled"]
    BY <1>8, SeenReturn DEF ReturnExpired, RetOf
  <2>3. UNCHANGED <<closing, shutdown, outcome, reply, expired>>
    BY <1>8 DEF ReturnExpired, outcome
  <2>4. Seen!Cancel(c)
    BY <2>1, <2>2, <2>3 DEF Seen!Cancel, Seen!Goto
  <2>5. QED
    BY <2>4 DEF Seen!Next
<1>9. CASE Expire(c)
  <2>1. call[c] \in {"send", "wait"}
    BY <1>0, <1>9 DEF Expire, CallOf, TypeOK, Labels, InSend
  <2>2. expired' = [expired EXCEPT ![c] = TRUE] /\ UNCHANGED <<closing, shutdown, call, outcome, reply, returned>>
    BY <1>9 DEF Expire, call, outcome, returned
  <2>3. Seen!Expire(c)
    BY <2>1, <2>2 DEF Seen!Expire
  <2>4. QED
    BY <2>3 DEF Seen!Next
<1>10. QED
  BY <1>1, <1>2, <1>3, <1>5, <1>6, <1>7, <1>8, <1>9 DEF Caller

LEMMA SeenReceive ==
  ASSUME Inv, Waiting, Receive
  PROVE  [Seen!Next]_Seen!vars
<1> USE DEF Inv, callVars, netVars, recvVars
<1>1. CASE ReadHeader \/ ReadHeaderFails \/ ClaimCall \/ DropAnswer
  BY <1>1 DEF ReadHeader, ReadHeaderFails, ClaimCall, DropAnswer, Seen!vars, call, outcome, returned
<1>2. ASSUME rpc = "body", claimed # NoCall
      PROVE  /\ claimed \in Calls /\ done[claimed] = 0 /\ ~shutdown
             /\ call[claimed] # "idle" /\ outcome[claimed] = "none"
             /\ answer.args = claimed
  <2>1. claimed \in Calls /\ done[claimed] = 0 /\ ~shutdown /\ callSeq[claimed] = answer.seq
    BY <1>2 DEF TypeOK, OneOwner
  <2>2. answer \in Answer /\ callSeq[answer.args] = answer.seq
    BY <1>2 DEF Labelled
  <2>3. answer.seq # 0 /\ answer.args \in Calls
    BY <2>2 DEF Answer, Seqs
  <2>4. answer.args = claimed /\ pc[claimed] # "idle"
    BY <2>1, <2>2, <2>3 DEF Numbered
  <2>5. call[claimed] # "idle" /\ outcome[claimed] = "none"
    BY <2>1, <2>4 DEF TypeOK, call, outcome, CallOf, Labels, InSend
  <2>6. QED
    BY <2>1, <2>4, <2>5
<1>3. CASE DeliverError \/ DeliverBadBody
  <2>1. PICK err \in Errors \ {"nil"} : Finish({claimed}, err)
    BY <1>3 DEF DeliverError, DeliverBadBody, Errors
  <2>2. rpc = "body" /\ claimed # NoCall /\ UNCHANGED <<closing, shutdown, pc, reply, expired, ret>>
    BY <1>3 DEF DeliverError, DeliverBadBody
  <2>3. outcome' = [c \in Calls |-> IF c \in {claimed} THEN OutcomeOf(err) ELSE outcome[c]]
    BY <1>2, <2>1, <2>2, SeenFinish
  <2>4. outcome' = [outcome EXCEPT ![claimed] = "failed"]
    BY <1>2, <2>1, <2>2, <2>3 DEF outcome, OutcomeOf
  <2>5. Seen!Fail(claimed)
    BY <1>2, <2>2, <2>4 DEF Seen!Fail, call, returned
  <2>6. QED
    BY <1>2, <2>2, <2>5 DEF Seen!Next
<1>4. CASE DeliverReply
  <2>1. Finish({claimed}, "nil") /\ "nil" \in Errors
    BY <1>4 DEF DeliverReply, Errors
  <2>2. rpc = "body" /\ claimed # NoCall /\ UNCHANGED <<closing, shutdown, pc, expired, ret>>
    BY <1>4 DEF DeliverReply
  <2>3. outcome' = [c \in Calls |-> IF c \in {claimed} THEN OutcomeOf("nil") ELSE outcome[c]]
    BY <1>2, <2>1, <2>2, SeenFinish
  <2>4. outcome' = [outcome EXCEPT ![claimed] = "ok"]
    BY <1>2, <2>2, <2>3 DEF outcome, OutcomeOf
  <2>5. reply' = [reply EXCEPT ![claimed] = claimed]
    BY <1>2, <1>4, <2>2 DEF DeliverReply
  <2>6. Seen!Succeed(claimed)
    BY <1>2, <2>2, <2>4, <2>5 DEF Seen!Succeed, call, returned
  <2>7. QED
    BY <1>2, <2>2, <2>6 DEF Seen!Next
<1>5. CASE TerminateCalls
  <2>1. /\ rpc = "terminate" /\ shutdown' = TRUE /\ Finish(Notified, "conn") /\ "conn" \in Errors
        /\ sending = NoCall /\ UNCHANGED <<closing, pc, reply, expired, ret>>
    BY <1>5 DEF TerminateCalls, SendersExcluded, Errors
  <2>2. ~shutdown /\ claimed = NoCall
    BY <2>1 DEF OneOwner
  <2>3. Notified \in SUBSET Calls /\ \A c \in Notified : done[c] = 0 /\ callSeq[c] # 0
    BY <2>2 DEF TypeOK, OneOwner, Numbered, Notified, Range, Seqs
  <2>4. outcome' = [c \in Calls |-> IF c \in Notified THEN OutcomeOf("conn") ELSE outcome[c]]
    BY <2>1, <2>3, SeenFinish
  <2>5. ASSUME NEW c \in Calls PROVE c \in Notified <=> call[c] = "wait" /\ outcome[c] = "none"
    <3>1. outcome[c] = "none" <=> done[c] = 0
      BY DEF outcome, OutcomeOf
    <3>2. pc[c] \notin InSend
      BY <2>1, NoCallAssumption DEF SendingOwned
    <3>3. ASSUME c \in Notified PROVE call[c] = "wait"
      <4>1. callSeq[c] \in DOMAIN pending
        BY <3>3 DEF TypeOK, Numbered, Notified, Range
      <4>2. pc[c] \notin {"idle", "lock", "returned"}
        BY <2>2, <2>3, <3>3, <4>1 DEF Numbered, ReturnedNotPending
      <4>3. QED
        BY <3>2, <4>2 DEF TypeOK, call, CallOf, Labels, InSend
    <3>4. ASSUME call[c] = "wait", done[c] = 0 PROVE c \in Notified
      <4>1. pc[c] \in {"wait", "cancel"}
        BY <3>4 DEF TypeOK, call, CallOf, Labels, InSend
      <4>2. callSeq[c] # 0
        BY <3>4, <4>1 DEF Waiting
      <4>3. callSeq[c] \in DOMAIN pending
        BY <2>2, <3>4, <4>1, <4>2, NoCallAssumption DEF NotForgotten, Waiting
      <4>4. pending[callSeq[c]] = c
        BY <4>2, <4>3 DEF TypeOK, Numbered
      <4>5. QED
        BY <4>3, <4>4 DEF Notified, Range
    <3>5. QED
      BY <2>3, <3>1, <3>3, <3>4
  <2>6. outcome' = [c \in Calls |-> IF call[c] = "wait" /\ outcome[c] = "none" THEN "failed" ELSE outcome[c]]
    BY <2>4, <2>5 DEF OutcomeOf
  <2>7. Seen!Lose
    BY <2>1, <2>2, <2>6 DEF Seen!Lose, call, returned
  <2>8. QED
    BY <2>7 DEF Seen!Next
<1>6. QED
  BY <1>1, <1>3, <1>4, <1>5 DEF Receive

(* Every step of the Client is one its users may expect, or they do not     *)
(* see it.                                                                  *)
THEOREM CallsImplemented == Spec => ImplementsCalls
<1>1. Inv /\ Waiting /\ [Next]_vars => [Seen!Next]_Seen!vars
  <2> SUFFICES ASSUME Inv, Waiting, [Next]_vars PROVE [Seen!Next]_Seen!vars
    OBVIOUS
  <2>1. CASE Close
    <3>1. Seen!Close
      BY <2>1 DEF Close, Seen!Close, callVars, call, outcome, returned
    <3>2. QED
      BY <3>1 DEF Seen!Next
  <2>2. CASE Peer \/ Ended \/ UNCHANGED vars
    BY <2>2 DEF Peer, PeerReads, PeerAnswers, PeerGone, Ended, vars, callVars, Seen!vars, call, outcome, returned
  <2>3. QED
    BY <2>1, <2>2, SeenCaller, SeenReceive DEF Next
<1>2. QED
  BY SeenInit, <1>1, Invariance, WaitingInvariance, PTL DEF Spec, ImplementsCalls, Seen!Spec

-----------------------------------------------------------------------------
(* RpcClient keeps RpcPeer.                                                  *)

(* The record changes nothing: all that is proved of Spec holds with it.    *)
LEMMA WireIsClient == WireSpec => Spec
<1>1. [WireNext]_<<vars, answers>> => [Next]_vars
  BY DEF WireNext
<1>2. QED
  BY <1>1, PTL DEF WireSpec, WireInit, Spec

Written == SeqsOf(wire) \cup SeqsOf(served) \cup Conn!Answered

LEMMA WrittenBelow ==
  ASSUME Inv, NumberUnused
  PROVE  Written \subseteq {s \in Nat : s < seq}
<1>1. ASSUME NEW r \in wire \cup served PROVE r.seq \in Nat /\ r.seq < seq
  BY DEF Inv, TypeOK, Numbered, Labelled, Request, Seqs
<1>2. ASSUME NEW m \in answers PROVE m.req \in Nat /\ m.req < seq
  BY DEF NumberUnused, Seqs
<1>3. QED
  BY <1>1, <1>2 DEF Written, SeqsOf, Conn!Answered

(* A number names one request on the wire.                                  *)
LEMMA OneRequest ==
  ASSUME Inv, NEW r \in wire \cup served, NEW q \in wire \cup served, r.seq = q.seq
  PROVE  r = q
<1>1. r \in Request /\ q \in Request /\ callSeq[r.args] = r.seq /\ callSeq[q.args] = q.seq
  BY DEF Inv, TypeOK, Labelled
<1>2. r.args = q.args
  BY <1>1 DEF Inv, Numbered, Request, Seqs
<1>3. QED
  BY <1>1, <1>2 DEF Request

LEMMA SeqsOfUnion == ASSUME NEW R, NEW r PROVE SeqsOf(R \cup {r}) = SeqsOf(R) \cup {r.seq}
  BY DEF SeqsOf

LEMMA InOrderUnion ==
  ASSUME NEW M, NEW m
  PROVE  InOrder(M \cup {m}) = InOrder(M) \cup {[req |-> m.seq, kind |-> m.kind]}
  BY DEF InOrder

PeerStep == [Conn!Next]_Conn!vars

(* What a step may do to the connection: nothing but take answers from it,  *)
(* put a request on it, or what the peer does.                              *)
Quiet == UNCHANGED <<wire, served>> /\ inbox' \subseteq inbox
Writes(c) ==
  /\ pc[c] = "write" /\ pc'[c] # "write"
  /\ wire' = wire \cup {[seq |-> callSeq[c], args |-> c]}
  /\ UNCHANGED <<served, inbox>>

LEMMA ConnSteps ==
  ASSUME Inv, [Next]_vars
  PROVE  \/ Quiet
         \/ \E c \in Calls : Writes(c)
         \/ \E r \in wire : PeerReads(r)
         \/ \E r \in served, kind \in Kinds : PeerAnswers(r, kind)
<1> USE DEF callVars, netVars, recvVars, Quiet
<1>1. ASSUME NEW c \in Calls, WriteFlushed(c) \/ WriteHead(c) PROVE Writes(c)
  BY <1>1 DEF Inv, TypeOK, Numbered, WriteFlushed, WriteHead, Goto, Writes
<1>2. ASSUME NEW c \in Calls, Go(c) \/ Expire(c) PROVE Quiet
  BY <1>2 DEF Go, Expire
<1>3. ASSUME NEW c \in Calls, Caller(c), ~WriteFlushed(c), ~WriteHead(c) PROVE Quiet
  BY <1>3 DEF Caller, LockSending, RegisterCall, RegisterRefused, WriteTail, WriteLost, WriteFails,
     SendFailed, ReturnDone, TakeExpired, ReturnExpired
<1>4. Receive => Quiet
  BY DEF Receive, ReadHeader, ReadHeaderFails, ClaimCall, DropAnswer, DeliverError, DeliverReply,
     DeliverBadBody, TerminateCalls
<1>5. Close \/ PeerGone \/ Ended \/ UNCHANGED vars => Quiet
  BY DEF Close, PeerGone, Ended, vars
<1>6. QED
  BY <1>1, <1>2, <1>3, <1>4, <1>5 DEF Next, Peer

LEMMA WireStep ==
  ASSUME Inv, NumberUnused, [WireNext]_<<vars, answers>>
  PROVE  PeerStep
<1> DEFINE W == SeqsOf(wire)  S == SeqsOf(served)
<1>1. [Next]_vars /\ (answers' = answers \cup InOrder(inbox') \/ UNCHANGED <<answers, inbox>>)
  BY DEF WireNext, vars, netVars
<1>2. InOrder(inbox) \subseteq answers
  BY DEF NumberUnused
<1>3. inbox' \subseteq inbox => answers' = answers
  BY <1>1, <1>2 DEF InOrder
<1>4. CASE Quiet
  <2>1. UNCHANGED <<wire, served, answers>>
    BY <1>3, <1>4 DEF Quiet
  <2>2. UNCHANGED Conn!vars
    BY <2>1 DEF Conn!vars, SeqsOf
  <2>3. QED
    BY <2>2 DEF PeerStep
<1>5. ASSUME NEW c \in Calls, Writes(c) PROVE PeerStep
  <2>1. callSeq[c] \in Seqs /\ callSeq[c] \notin W \cup S \cup Conn!Answered
    BY <1>5 DEF Inv, TypeOK, Numbered, NumberUnused, Seqs, Writes
  <2>2. UNCHANGED <<served, answers>>
    BY <1>3, <1>5 DEF Writes
  <2>3. W' = W \cup {callSeq[c]}
    <3>1. SeqsOf(wire') = SeqsOf(wire) \cup {[seq |-> callSeq[c], args |-> c].seq}
      BY <1>5, SeqsOfUnion, Zenon DEF Writes
    <3>2. QED
      BY <3>1 DEF SeqsOf
  <2>4. Conn!Send(callSeq[c])
    BY <2>1, <2>2, <2>3 DEF Conn!Send, SeqsOf
  <2>5. QED
    BY <2>3, <2>4 DEF PeerStep, Conn!Next
<1>6. ASSUME NEW r \in wire, PeerReads(r) PROVE PeerStep
  <2>1. wire' = wire \ {r} /\ served' = served \cup {r} /\ inbox' = inbox
    BY <1>6 DEF PeerReads
  <2>2. answers' = answers
    BY <1>3, <2>1
  <2>3. W' = W \ {r.seq}
    <3>1. ASSUME NEW q \in wire \ {r} PROVE q.seq # r.seq
      BY OneRequest
    <3>2. QED
      BY <2>1, <3>1 DEF SeqsOf
  <2>4. S' = S \cup {r.seq} /\ r.seq \in W
    BY <2>1 DEF SeqsOf
  <2>5. Conn!Read(r.seq)
    BY <2>2, <2>3, <2>4 DEF Conn!Read
  <2>6. QED
    BY <2>4, <2>5 DEF PeerStep, Conn!Next
<1>7. ASSUME NEW r \in served, NEW kind \in Kinds, PeerAnswers(r, kind) PROVE PeerStep
  <2>1. /\ wire' = wire /\ served' = served \ {r}
        /\ inbox' = inbox \cup {[seq |-> r.seq, args |-> r.args, kind |-> kind]}
    BY <1>7 DEF PeerAnswers
  <2>2. answers' = answers \cup {[req |-> r.seq, kind |-> kind]}
    <3>1. InOrder(inbox') = InOrder(inbox) \cup {[req |-> r.seq, kind |-> kind]}
      <4> DEFINE m == [seq |-> r.seq, args |-> r.args, kind |-> kind]
      <4>1. InOrder(inbox \cup {m}) = InOrder(inbox) \cup {[req |-> m.seq, kind |-> m.kind]}
        BY InOrderUnion, Zenon
      <4>2. m.seq = r.seq /\ m.kind = kind
        OBVIOUS
      <4>3. QED
        BY <2>1, <4>1, <4>2, Zenon
    <3>2. QED
      BY <1>1, <1>2, <2>1, <3>1
  <2>3. S' = S \ {r.seq}
    <3>1. ASSUME NEW q \in served \ {r} PROVE q.seq # r.seq
      BY OneRequest
    <3>2. QED
      BY <2>1, <3>1 DEF SeqsOf
  <2>4. W' = W /\ r.seq \in S
    BY <2>1 DEF SeqsOf
  <2>5. Conn!Answer(r.seq, kind)
    BY <2>2, <2>3, <2>4 DEF Conn!Answer
  <2>6. QED
    BY <2>4, <2>5 DEF PeerStep, Conn!Next
<1>8. QED
  BY <1>1, <1>4, <1>5, <1>6, <1>7, ConnSteps

(* Who comes to write has just been given the next number; who has written  *)
(* does not come back to it.                                                *)
LEMMA NumberUnusedKept ==
  ASSUME Inv, NumberUnused, [WireNext]_<<vars, answers>>
  PROVE  NumberUnused'
<1>1. [Next]_vars /\ (answers' = answers \cup InOrder(inbox') \/ UNCHANGED <<answers, inbox>>)
  BY DEF WireNext, vars, netVars
<1>2. InOrder(inbox) \subseteq answers /\ \A m \in answers : m.req \in Seqs /\ m.req < seq
  BY DEF NumberUnused
<1>3. InOrder(inbox') \subseteq answers'
  BY <1>1, <1>2 DEF InOrder
<1>4. seq' \in Nat /\ seq \in Nat /\ seq <= seq'
  <2>1. seq' = seq \/ seq' = seq + 1
    BY <1>1 DEF Next, Caller, Receive, Peer, Go, LockSending, RegisterCall, RegisterRefused, WriteFlushed,
       WriteHead, WriteTail, WriteLost, WriteFails, SendFailed, ReturnDone, TakeExpired, ReturnExpired,
       Expire, Close, ReadHeader, ReadHeaderFails, ClaimCall, DropAnswer, DeliverError, DeliverReply,
       DeliverBadBody, TerminateCalls, PeerReads, PeerAnswers, PeerGone, Ended, vars
  <2>2. QED
    BY <2>1 DEF Inv, TypeOK, Seqs
<1>5. inbox' \subseteq inbox => answers' = answers
  BY <1>1, <1>2 DEF InOrder
<1>6. ASSUME NEW m \in answers' PROVE m.req \in Seqs /\ m.req < seq'
  <2>1. m.req \in Seqs /\ m.req < seq
    <3>1. CASE Quiet \/ (\E c \in Calls : Writes(c)) \/ (\E r \in wire : PeerReads(r))
      BY <1>2, <1>5, <3>1 DEF Quiet, Writes, PeerReads
    <3>2. ASSUME NEW r \in served, NEW kind \in Kinds, PeerAnswers(r, kind) PROVE m.req \in Seqs /\ m.req < seq
      <4>1. r.seq \in Seqs /\ r.seq < seq
        BY DEF Inv, TypeOK, Numbered, Labelled, Request
      <4>2. m \in answers \/ m.req = r.seq
        BY <1>1, <1>2, <3>2 DEF PeerAnswers, InOrder
      <4>3. QED
        BY <1>2, <4>1, <4>2
    <3>3. QED
      BY <1>1, <3>1, <3>2, ConnSteps
  <2>2. QED
    BY <1>4, <2>1 DEF Seqs
<1>7. ASSUME NEW c \in Calls, pc'[c] = "write" PROVE callSeq'[c] \notin Written'
  <2>1. CASE pc[c] = "write" /\ callSeq'[c] = callSeq[c]
    <3>1. callSeq[c] \notin Written
      BY <2>1 DEF NumberUnused, Written
    <3>2. Written' \subseteq Written
      <4>1. CASE Quiet
        BY <1>5, <4>1 DEF Quiet, Written, SeqsOf, Conn!Answered
      <4>2. ASSUME NEW r \in wire, PeerReads(r) PROVE Written' \subseteq Written
        BY <1>5, <4>2 DEF PeerReads, Written, SeqsOf, Conn!Answered
      <4>3. ASSUME NEW r \in served, NEW kind \in Kinds, PeerAnswers(r, kind) PROVE Written' \subseteq Written
        <5>1. wire' = wire /\ served' \subseteq served /\ r \in served
          BY <4>3 DEF PeerAnswers
        <5>2. \A m \in answers' : m \in answers \/ m.req = r.seq
          BY <1>1, <1>2, <4>3 DEF PeerAnswers, InOrder
        <5>3. QED
          BY <5>1, <5>2 DEF Written, SeqsOf, Conn!Answered
      <4>4. ASSUME NEW d \in Calls, Writes(d) PROVE FALSE
        <5>1. d = c
          BY <2>1, <4>4, NoCallAssumption DEF Inv, SendingOwned, InSend, Writes
        <5>2. QED
          BY <1>7, <4>4, <5>1 DEF Writes
      <4>5. QED
        BY <1>1, <4>1, <4>2, <4>3, <4>4, ConnSteps
    <3>3. QED
      BY <2>1, <3>1, <3>2
  <2>2. CASE RegisterCall(c)
    <3>1. callSeq'[c] = seq /\ UNCHANGED <<wire, served, inbox>>
      BY <2>2 DEF RegisterCall, Inv, TypeOK, netVars
    <3>2. Written' = Written
      BY <1>5, <3>1 DEF Written, SeqsOf, Conn!Answered
    <3>3. QED
      BY <1>4, <3>1, <3>2, WrittenBelow
  <2>3. (pc[c] = "write" /\ callSeq'[c] = callSeq[c]) \/ RegisterCall(c)
    <3> USE DEF Inv, TypeOK, Goto, callVars, netVars, recvVars
    <3>1. ASSUME NEW d \in Calls, Go(d) \/ Expire(d) PROVE pc[c] = "write" /\ callSeq' = callSeq
      BY <1>7, <3>1 DEF Go, Expire
    <3>2. ASSUME NEW d \in Calls, Caller(d), ~RegisterCall(d) PROVE pc[c] = "write" /\ callSeq' = callSeq
      BY <1>7, <3>2 DEF Caller, LockSending, RegisterRefused, WriteFlushed, WriteHead, WriteTail,
         WriteLost, WriteFails, SendFailed, ReturnDone, TakeExpired, ReturnExpired
    <3>3. ASSUME NEW d \in Calls, RegisterCall(d), d # c PROVE pc[c] = "write" /\ callSeq'[c] = callSeq[c]
      BY <1>7, <3>3 DEF RegisterCall
    <3>4. Receive \/ Close \/ Peer \/ Ended \/ UNCHANGED vars => pc' = pc /\ callSeq' = callSeq
      BY DEF Receive, ReadHeader, ReadHeaderFails, ClaimCall, DropAnswer, DeliverError, DeliverReply,
         DeliverBadBody, TerminateCalls, Close, Peer, PeerReads, PeerAnswers, PeerGone, Ended, vars
    <3>5. QED
      BY <1>1, <1>7, <3>1, <3>2, <3>3, <3>4 DEF Next
  <2>4. QED
    BY <2>1, <2>2, <2>3
<1>8. QED
  BY <1>3, <1>6, <1>7 DEF NumberUnused, Written

(* On the wire the Client is an end of RpcPeer, of which RpcServer is the   *)
(* other.                                                                   *)
THEOREM PeerKept == WireSpec => ImplementsPeer
<1>1. WireInit => NumberUnused /\ Conn!Init
  BY DEF WireInit, Init, NumberUnused, Conn!Init, Conn!Answered, SeqsOf, InOrder
<1>2. Inv /\ NumberUnused /\ [WireNext]_<<vars, answers>> => NumberUnused' /\ [Conn!Next]_Conn!vars
  BY WireStep, NumberUnusedKept DEF PeerStep
<1>3. QED
  BY <1>1, <1>2, WireIsClient, Invariance, PTL DEF WireSpec, ImplementsPeer, Conn!Spec
=============================================================================
