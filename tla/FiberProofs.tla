----------------------------- MODULE FiberProofs -----------------------------
(***************************************************************************)
(* Proofs about Fiber: any threads and fibers, stacks of any depth, stops  *)
(* at any place.                                                           *)
(***************************************************************************)
EXTENDS Fiber, TLAPS

\* Where the code of a stack is: in callImpl before it leaves the stack and
\* after it came back, in switchOut before and after; a stack somebody is on;
\* one with m_lock set.
Before == {"in saved", "in locked", "in pushed"}
After == {"in back", "in popped", "in unlocked"}
Calling == Before \cup After
Leaving == {"out saved", "out locked"}
Returning == {"out back", "out unlocked"}
Active == {"run", "entry", "entered"} \cup Calling \cup Leaving \cup Returning
Locking == {"in locked", "in pushed", "in back", "in popped", "out locked", "out back", "entry"}
FiberPlaces == Active \cup {"in away", "out away", "unmapped", "new", "ended"}

Addresses == [stack : Stacks, frames : Nat]
Locals == [cur : Fibers \cup {NoFiber}, tobj : Carriers, oldp : Stacks, newp : Addresses]
Self(s) == IF s \in Fibers THEN s ELSE NoFiber

TypeOK ==
  /\ sp \in [Carriers -> Addresses] /\ frames \in [Stacks -> Nat]
  /\ at \in [Stacks -> FiberPlaces] /\ tstack \in [Stacks -> Addresses]
  /\ within \in [Stacks -> Stacks \cup {NoFiber}] /\ ehContext \in [Stacks -> Stacks]
  /\ listed \subseteq Fibers /\ held \subseteq Fibers /\ condemned \subseteq Fibers
  /\ state \in [Fibers -> {"HOLD", "EXEC", "TERM"}]
  /\ curr \in [Carriers -> Stacks] /\ ehSlot \in [Carriers -> Stacks]
  /\ switching \subseteq Carriers /\ halted \subseteq Carriers
  /\ smThis \in [Carriers -> Fibers \cup {NoFiber}]
  /\ callee \in [Stacks -> Fibers \cup {NoFiber}]
  /\ locals \in [Stacks -> Locals \cup {NoFiber}]
  /\ stopper \in Carriers \cup {NoFiber}

\* Every thread is on a stack of its own.
Placed ==
  /\ \A t \in Carriers : sp[t] = Address(On(t), frames[On(t)])
  /\ \A t, u \in Carriers : t # u => On(t) # On(u)
  /\ \A s \in Stacks : at[s] \in Active <=> \E t \in Carriers : On(t) = s
  /\ \A t \in Carriers : at[t] \in {"run", "in away"} \cup Calling

\* What a thread knows of the stack it is on.
Carried ==
  \A t \in Carriers :
    /\ curr[t] = IF at[On(t)] \in {"in pushed", "in back"} THEN callee[On(t)] ELSE On(t)
    /\ t \in switching <=> at[On(t)] \in Locking
    /\ smThis[t] = IF at[On(t)] \in Calling THEN callee[On(t)] ELSE Self(On(t))

Exceptions ==
  /\ \A t \in Carriers : ehSlot[t] = curr[t]
  /\ \A s \in Stacks : ehContext[s] = s

\* Who called whom.
Calls ==
  /\ \A s \in Stacks : callee[s] # NoFiber <=> at[s] \in Calling \cup {"in away"}
  /\ \A s, r \in Stacks : callee[s] # NoFiber /\ callee[s] = callee[r] => s = r
  /\ \A s \in Stacks :
       /\ at[s] \in Before => at[callee[s]] \in {"new", "out away"}
       /\ at[s] \in After => at[callee[s]] \in {"ended", "out away"}
       /\ at[s] = "in away" => at[callee[s]] \in Active \cup {"in away"}
       /\ at[s] \in {"in pushed", "in away", "in back"} => within[callee[s]] = s
  /\ \A f \in Fibers : at[f] \in Active \cup {"in away"} => Called(f)

\* The local variables of a switch.
LocalsFit ==
  /\ \A s \in Stacks : at[s] \in Calling \cup Leaving \cup Returning \cup {"in away", "out away"} =>
       /\ locals[s] \in Locals /\ locals[s].cur = Self(s) /\ locals[s].oldp = s
  /\ \A t \in Carriers :
       at[On(t)] \in Calling \cup Leaving \cup {"out unlocked"} => locals[On(t)].tobj = t
  /\ \A s \in Stacks : at[s] \in Calling \cup {"in away"} /\ at[callee[s]] \in Leaving =>
       locals[callee[s]].newp = Address(s, frames[s])
  /\ \A s \in Stacks :
       /\ at[s] \in Before => locals[s].newp = Address(callee[s], frames[callee[s]])
       /\ at[s] = "in away" =>
            /\ \A t \in Carriers : On(t) = callee[s] => locals[s].tobj = t
            /\ at[callee[s]] = "in away" => locals[callee[s]].tobj = locals[s].tobj

States ==
  \A f \in Fibers :
    /\ at[f] \in {"run", "in away"} \cup Calling => state[f] = "EXEC"
    /\ at[f] \in {"new", "entry", "entered", "out away"} \cup Returning => state[f] = "HOLD"
    /\ at[f] \in Leaving => state[f] \in {"HOLD", "TERM"}
    /\ at[f] \in {"ended", "unmapped"} => state[f] = "TERM"

\* The stored stack tops.
Tops ==
  /\ \A s \in Stacks :
       /\ tstack[s].stack = s
       /\ at[s] \in {"in away", "out away", "new", "in back", "in popped", "out back", "entry"} =>
            tstack[s] = Address(s, frames[s])
       /\ at[s] \in {"unmapped", "new", "ended", "entry", "entered"} <=> frames[s] = 0
       /\ at[s] = "unmapped" \/ (at[s] = "ended" /\ ~Called(s)) => tstack[s] = Bottom(s)
  /\ \A t \in halted \cup {stopper} :
       t \in Carriers \ switching => tstack[On(t)] = sp[t]

\* Which fibers exist, and which of them will be finalized.
Kept ==
  /\ \A f \in Fibers : f \in listed <=> at[f] # "unmapped"
  /\ held \subseteq listed /\ condemned \subseteq listed
  /\ \A f \in condemned : f \notin held /\ ~Called(f) /\ at[f] \in {"new", "ended"}
  /\ stopper # NoFiber => at[On(stopper)] = "run" /\ stopper \notin halted

Inv ==
  /\ TypeOK /\ Placed /\ Carried /\ Exceptions /\ Calls /\ LocalsFit /\ States /\ Tops /\ Kept

\* A stack is a thread's own, named by the thread, or a fiber; NoFiber is neither.
LEMMA Names ==
  /\ NoFiber \notin Stacks /\ NoFiber \notin Carriers /\ NoFiber \notin Fibers
  /\ \A t \in Carriers : t \notin Fibers /\ t \in Stacks
  /\ \A f \in Fibers : f \notin Carriers /\ f \in Stacks
  /\ \A s \in Stacks : s \in Carriers \/ s \in Fibers
  /\ Carriers \subseteq Stacks /\ Fibers \subseteq Stacks /\ Stacks \subseteq Carriers \cup Fibers
BY FiberNames DEF Stacks

\* A running thread is on one stack, which is nobody else's.
LEMMA Here ==
  ASSUME Inv, NEW t \in Carriers
  PROVE  /\ On(t) \in Stacks /\ at[On(t)] \in Active /\ sp[t] = Address(On(t), frames[On(t)])
         /\ \A u \in Carriers : u # t => On(u) # On(t)
         /\ sp[t] \in Addresses
BY DEF Inv, TypeOK, Placed, On, Addresses

\* The types of what is reached through callee, curr, sp, stopper and the sets.
LEMMA Facts ==
  ASSUME Inv
  PROVE  /\ \A r \in Stacks : callee[r] # NoFiber => callee[r] \in Fibers /\ callee[r] \in Stacks
         /\ \A r \in Stacks : at[r] \in Calling \/ at[r] = "in away" => callee[r] \in Fibers /\ callee[r] \in Stacks
         /\ \A t \in Carriers : curr[t] \in Stacks /\ sp[t].stack \in Stacks
         /\ stopper # NoFiber => stopper \in Carriers
         /\ \A t \in halted : t \in Carriers
         /\ \A f \in Fibers : f \in Stacks
         /\ \A f \in listed \cup held \cup condemned : f \in Fibers
BY Names DEF Inv, TypeOK, Addresses, Calls


\* Nobody calls or comes back, and nobody changes stacks.
Steady ==
  /\ callee' = callee /\ \A t \in Carriers : On(t)' = On(t)
  /\ \A r \in Stacks :
       /\ at'[r] \in Before <=> at[r] \in Before
       /\ at'[r] \in After <=> at[r] \in After
       /\ at'[r] \in Active <=> at[r] \in Active
       /\ at'[r] = "in away" <=> at[r] = "in away"
       /\ (\E x \in Stacks : callee[x] = r) =>
            /\ at'[r] = "out away" <=> at[r] = "out away"
            /\ at'[r] = "new" <=> at[r] = "new"
            /\ at'[r] = "ended" <=> at[r] = "ended"

\* A steady step keeps who called whom.
LEMMA CallsSteady ==
  ASSUME Inv, Steady,
         \A r \in Stacks : at'[r] \in {"in pushed", "in away", "in back"} => within'[callee[r]] = r
  PROVE  Calls'
<1>0. Calls /\ callee' = callee
  BY DEF Inv, Steady
<1>1. \A r \in Stacks : callee'[r] # NoFiber <=> at'[r] \in Calling \cup {"in away"}
  BY <1>0 DEF Calls, Calling, Steady
<1>2. \A s, r \in Stacks : callee'[s] # NoFiber /\ callee'[s] = callee'[r] => s = r
  BY <1>0 DEF Calls
<1>3. ASSUME NEW r \in Stacks
      PROVE  /\ at'[r] \in Before => at'[callee'[r]] \in {"new", "out away"}
             /\ at'[r] \in After => at'[callee'[r]] \in {"ended", "out away"}
             /\ at'[r] = "in away" => at'[callee'[r]] \in Active \cup {"in away"}
  <2>1. CASE at[r] \in Calling \cup {"in away"}
    <3>1. callee[r] \in Stacks /\ callee[r] = callee[r]
      BY <2>1, Facts
    <3> QED
      BY <1>0, <2>1, <3>1 DEF Calls, Calling, Steady
  <2>2. CASE at[r] \notin Calling \cup {"in away"}
    BY <2>2 DEF Calling, Steady
  <2> QED
    BY <2>1, <2>2
<1>4. ASSUME NEW f \in Fibers, at'[f] \in Active \cup {"in away"}
      PROVE  \E r \in Stacks : callee'[r] = f
  <2>1. f \in Stacks
    BY Names
  <2>2. at[f] \in Active \cup {"in away"}
    BY <1>4, <2>1 DEF Steady
  <2> QED
    BY <1>0, <2>2 DEF Calls, Called
<1> QED
  BY <1>0, <1>1, <1>2, <1>3, <1>4 DEF Calls, Called

\* A step that moves nobody keeps every thread on a stack of its own.
LEMMA PlacedSteady ==
  ASSUME Inv, \A t \in Carriers : On(t)' = On(t),
         \A r \in Stacks : at'[r] \in Active <=> at[r] \in Active,
         \A t \in Carriers : sp'[t] = Address(On(t), frames'[On(t)]),
         \A t \in Carriers : at'[t] = at[t] \/ at'[t] \in {"run"} \cup Calling
  PROVE  Placed'
<1>1. \A t \in Carriers : t \in Stacks /\ On(t)' = On(t)
  BY Names
<1>2. \A t \in Carriers : sp'[t] = Address(On(t)', frames'[On(t)'])
  BY <1>1
<1>3. ASSUME NEW t \in Carriers, NEW u \in Carriers, t # u
      PROVE  On(t)' # On(u)'
  BY <1>1, <1>3, Here
<1>4. ASSUME NEW s \in Stacks
      PROVE  at'[s] \in Active <=> \E t \in Carriers : On(t)' = s
  BY <1>1 DEF Inv, Placed
<1>5. \A t \in Carriers : at'[t] \in {"run", "in away"} \cup Calling
  BY <1>1 DEF Inv, Placed
<1> QED
  BY <1>2, <1>3, <1>4, <1>5 DEF Placed

\* A steady step keeps what the local variables of a switch say.
LEMMA LocalsSteady ==
  ASSUME Inv, Steady,
         \A r \in Stacks : at'[r] \in Calling \cup Leaving \cup Returning \cup {"in away", "out away"} =>
           locals'[r] \in Locals /\ locals'[r].cur = Self(r) /\ locals'[r].oldp = r,
         \A t \in Carriers :
           at'[On(t)] \in Calling \cup Leaving \cup {"out unlocked"} => locals'[On(t)].tobj = t,
         \A r \in Stacks : at[r] \in Calling \cup {"in away"} /\ at'[callee[r]] \in Leaving =>
           locals'[callee[r]].newp = Address(r, frames[r]),
         \A r \in Stacks : at[r] \in Calling \cup {"in away"} =>
           /\ locals'[r] = locals[r] /\ frames'[r] = frames[r]
           /\ at[callee[r]] \in {"new", "out away"} => frames'[callee[r]] = frames[callee[r]]
  PROVE  LocalsFit'
<1>0. LocalsFit /\ callee' = callee /\ \A t \in Carriers : On(t)' = On(t)
  BY DEF Inv, Steady
<1>1. \A t \in Carriers :
        at'[On(t)'] \in Calling \cup Leaving \cup {"out unlocked"} => locals'[On(t)'].tobj = t
  BY <1>0
<1>2. \A r \in Stacks : at'[r] \in Calling \cup {"in away"} /\ at'[callee'[r]] \in Leaving =>
        locals'[callee'[r]].newp = Address(r, frames'[r])
  BY <1>0 DEF Steady, Calling
<1>3. ASSUME NEW r \in Stacks, at'[r] \in Before
      PROVE  locals'[r].newp = Address(callee'[r], frames'[callee'[r]])
  <2>1. at[r] \in Before /\ at[callee[r]] \in {"new", "out away"}
    BY <1>3 DEF Steady, Inv, Calls
  <2> QED
    BY <1>0, <2>1 DEF LocalsFit, Calling
<1>4. ASSUME NEW r \in Stacks, at'[r] = "in away"
      PROVE  /\ \A t \in Carriers : On(t)' = callee'[r] => locals'[r].tobj = t
             /\ at'[callee'[r]] = "in away" => locals'[callee'[r]].tobj = locals'[r].tobj
  <2>1. at[r] = "in away" /\ callee[r] \in Stacks /\ locals'[r] = locals[r]
    BY <1>4, Facts DEF Steady, Calling
  <2>2. \A t \in Carriers : On(t) = callee[r] => locals[r].tobj = t
    BY <1>0, <2>1 DEF LocalsFit
  <2>3. at'[callee[r]] = "in away" =>
          at[callee[r]] = "in away" /\ locals'[callee[r]] = locals[callee[r]]
    BY <2>1 DEF Steady, Calling
  <2>4. at[callee[r]] = "in away" => locals[callee[r]].tobj = locals[r].tobj
    BY <1>0, <2>1 DEF LocalsFit
  <2>5. callee'[r] = callee[r] /\ \A t \in Carriers : On(t)' = On(t)
    BY <1>0
  <2>6. \A t \in Carriers : On(t)' = callee'[r] => locals'[r].tobj = t
    BY ONLY <2>1, <2>2, <2>5
  <2>7. at'[callee'[r]] = "in away" => locals'[callee'[r]].tobj = locals'[r].tobj
    BY ONLY <2>1, <2>3, <2>4, <2>5
  <2> QED
    BY <2>6, <2>7
<1> QED
  BY <1>1, <1>2, <1>3, <1>4 DEF LocalsFit

\* What a thread finds on the stack it is on.
LEMMA There ==
  ASSUME Inv, NEW t \in Carriers, NEW s, s = On(t)
  PROVE  /\ curr[t] = IF at[s] \in {"in pushed", "in back"} THEN callee[s] ELSE s
         /\ t \in switching <=> at[s] \in Locking
         /\ smThis[t] = IF at[s] \in Calling THEN callee[s] ELSE Self(s)
         /\ ehSlot[t] = curr[t]
         /\ at[s] \in Calling \cup Leaving \cup {"out unlocked"} => locals[s].tobj = t
         /\ at[s] \in Calling \cup Leaving \cup Returning =>
              locals[s] \in Locals /\ locals[s].cur = Self(s) /\ locals[s].oldp = s
         /\ at[s] \in {"in pushed", "in away", "in back"} => within[callee[s]] = s
         /\ at[s] \in Calling =>
              callee[s] \in Fibers /\ callee[s] \in Stacks /\ callee[s] # s
         /\ at[s] \in {"entry", "entered"} \cup Leaving \cup Returning => s \in Fibers
         /\ \A r \in Stacks : ehContext[r] = r
<1>1. s \in Stacks /\ at[s] \in Active
  BY Here
<1>2. /\ curr[t] = IF at[s] \in {"in pushed", "in back"} THEN callee[s] ELSE s
      /\ t \in switching <=> at[s] \in Locking
      /\ smThis[t] = IF at[s] \in Calling THEN callee[s] ELSE Self(s)
      /\ ehSlot[t] = curr[t] /\ \A r \in Stacks : ehContext[r] = r
  BY DEF Inv, Carried, Exceptions
<1>3. /\ at[s] \in Calling \cup Leaving \cup {"out unlocked"} => locals[s].tobj = t
      /\ at[s] \in Calling \cup Leaving \cup Returning =>
           locals[s] \in Locals /\ locals[s].cur = Self(s) /\ locals[s].oldp = s
  BY <1>1 DEF Inv, LocalsFit
<1>4. /\ at[s] \in {"in pushed", "in away", "in back"} => within[callee[s]] = s
      /\ at[s] \in Before => at[callee[s]] \in {"new", "out away"}
      /\ at[s] \in After => at[callee[s]] \in {"ended", "out away"}
  BY <1>1 DEF Inv, Calls
<1>5. at[s] \in Calling =>
        callee[s] \in Fibers /\ callee[s] \in Stacks /\ callee[s] # s
  BY <1>1, <1>4, Facts DEF Calling, Before, After
<1>6. ASSUME at[s] \in {"entry", "entered"} \cup Leaving \cup Returning
      PROVE  s \in Fibers
  <2>1. at[s] \notin {"run", "in away"} \cup Calling
    BY <1>6 DEF Calling, Before, After, Leaving, Returning
  <2>2. s \notin Carriers
    BY <2>1 DEF Inv, Placed
  <2> QED
    BY <1>1, <2>2, Names
<1> QED
  BY <1>2, <1>3, <1>4, <1>5, <1>6

\* The local variables of a switch that is going on name its fiber and its stack.
LEMMA LocalHere ==
  ASSUME Inv, NEW s \in Stacks, at[s] \in Calling \/ at[s] \in Leaving \/ at[s] \in Returning
  PROVE  locals[s] \in Locals /\ locals[s].cur = Self(s) /\ locals[s].oldp = s
BY DEF Inv, LocalsFit

\* The caller of a fiber that is in use.
LEMMA Caller ==
  ASSUME Inv, NEW f \in Fibers, at[f] \in Active \/ at[f] = "in away"
  PROVE  \E c \in Stacks :
           /\ callee[c] = f /\ at[c] = "in away" /\ within[f] = c
           /\ tstack[c] = Address(c, frames[c])
           /\ \A r \in Stacks : callee[r] = f => r = c
           /\ \A t \in Carriers : On(t) = f => locals[c].tobj = t
<1>1. PICK c \in Stacks : callee[c] = f /\ callee[c] # NoFiber
  BY Names DEF Inv, Calls, Called
<1>2. at[c] = "in away"
  BY <1>1 DEF Inv, Calls, Calling, Before, After, Active, Leaving, Returning
<1>3. within[f] = c /\ \A r \in Stacks : callee[r] = f => r = c
  BY <1>1, <1>2 DEF Inv, Calls
<1>4. tstack[c] = Address(c, frames[c])
  BY <1>2 DEF Inv, Tops
<1>5. \A t \in Carriers : On(t) = f => locals[c].tobj = t
  BY <1>1, <1>2 DEF Inv, LocalsFit
<1> QED
  BY <1>1, <1>2, <1>3, <1>4, <1>5

\* A fiber without a context has no stack, and nobody called it.
LEMMA Uncalled ==
  ASSUME Inv, NEW f \in Fibers, f \notin listed
  PROVE  at[f] = "unmapped" /\ ~Called(f)
<1>1. at[f] = "unmapped" /\ f \in Stacks
  BY Names DEF Inv, Kept
<1>2. ASSUME NEW c \in Stacks, callee[c] = f
      PROVE  FALSE
  <2>1. at[c] \in Before \cup After \cup {"in away"}
    BY <1>2, Names DEF Inv, Calls, Calling
  <2>2. at[f] \in {"new", "out away", "ended", "in away"} \cup Active
    BY <1>2, <2>1 DEF Inv, Calls
  <2> QED
    BY <1>1, <2>2 DEF Active, Calling, Before, After, Leaving, Returning
<1> QED
  BY <1>1, <1>2 DEF Called

\* Outside a switch the context of a thread is that of the stack it is on.
LEMMA OwnContext ==
  ASSUME Inv, NEW t \in Carriers, t \notin switching
  PROVE  curr[t] = On(t)
BY DEF Inv, Carried, Locking
-----------------------------------------------------------------------------
(* Steps of one thread on its stack, or on a fiber nobody is using.        *)

\* What holds of thread t on stack s.
OnStack(t, s) ==
  /\ sp[t] = Address(s, frames[s])
  /\ curr[t] = IF at[s] \in {"in pushed", "in back"} THEN callee[s] ELSE s
  /\ t \in switching <=> at[s] \in Locking
  /\ smThis[t] = IF at[s] \in Calling THEN callee[s] ELSE Self(s)
  /\ ehSlot[t] = curr[t]
  /\ at[s] \in Calling \cup Leaving \cup {"out unlocked"} => locals[s].tobj = t

\* What holds of stack s.
Settled(s) ==
  /\ at[s] \in {"in pushed", "in back"} => within[callee[s]] = s
  /\ at[s] \in Calling \cup Leaving \cup Returning =>
       locals[s] \in Locals /\ locals[s].cur = Self(s) /\ locals[s].oldp = s
  /\ s \in Fibers =>
       /\ at[s] \in {"run"} \cup Calling => state[s] = "EXEC"
       /\ at[s] \in {"new", "entry", "entered"} \cup Returning => state[s] = "HOLD"
       /\ at[s] \in Leaving => state[s] \in {"HOLD", "TERM"}
       /\ at[s] = "unmapped" => state[s] = "TERM"
       /\ s \in listed <=> at[s] # "unmapped"
       /\ s \in held \cup condemned => s \in listed
       /\ s \in condemned => s \notin held /\ ~Called(s) /\ at[s] \in {"new", "ended"}
  /\ tstack[s].stack = s
  /\ at[s] \in {"new", "in back", "in popped", "out back", "entry"} => tstack[s] = Address(s, frames[s])
  /\ at[s] \in {"unmapped", "new", "entry", "entered"} <=> frames[s] = 0
  /\ at[s] = "unmapped" => tstack[s] = Bottom(s)

\* Stack s stays in use or out of use, and other stacks are left alone.
OnlyStack(s) ==
  /\ callee' = callee /\ halted' = halted /\ stopper' = stopper
  /\ \A u \in Carriers : On(u)' = On(u) /\ (On(u) = s => u \notin halted /\ u # stopper)
  /\ \A u \in Carriers : On(u) # s =>
       /\ sp'[u] = sp[u] /\ curr'[u] = curr[u] /\ smThis'[u] = smThis[u] /\ ehSlot'[u] = ehSlot[u]
       /\ u \in switching' <=> u \in switching
  /\ \A r \in Stacks : r # s =>
       /\ at'[r] = at[r] /\ tstack'[r] = tstack[r] /\ frames'[r] = frames[r] /\ locals'[r] = locals[r]
       /\ at[r] \in {"in pushed", "in away", "in back"} => within'[callee[r]] = within[callee[r]]
  /\ \A f \in Fibers : f # s =>
       /\ state'[f] = state[f] /\ (f \in listed' <=> f \in listed)
       /\ (f \in held' <=> f \in held) /\ (f \in condemned' <=> f \in condemned)
  /\ \A r \in Stacks : ehContext'[r] = r
  /\ \/ at[s] \in Active /\ at'[s] \in Active
        /\ (at'[s] \in Before <=> at[s] \in Before) /\ (at'[s] \in After <=> at[s] \in After)
     \/ ~Called(s) /\ {at[s], at'[s]} \subseteq {"unmapped", "new", "ended", "out away"} /\ at'[s] \in {"unmapped", "new"}
  /\ s \in Carriers => at'[s] \in {"run"} \cup Calling
  /\ at[s] \in Calling => locals'[s] = locals[s] /\ frames'[s] = frames[s]

\* A step that changes one stack only keeps the invariant when it does there.
LEMMA OneStack ==
  ASSUME Inv, NEW s \in Stacks, OnlyStack(s), TypeOK', Settled(s)',
         \A t \in Carriers : On(t) = s => OnStack(t, s)',
         at'[s] \in Leaving => \A c \in Stacks : callee[c] = s => locals'[s].newp = Address(c, frames[c])
  PROVE  Inv'
<1>on. /\ callee' = callee /\ halted' = halted /\ stopper' = stopper
       /\ \A u \in Carriers : On(u)' = On(u) /\ On(u) \in Stacks /\ at[On(u)] \in Active
  BY Here DEF OnlyStack
<1>at. \A r \in Stacks : r # s => at'[r] = at[r]
  BY DEF OnlyStack
<1>c. \A r : Called(r)' <=> Called(r)
  BY <1>on DEF Called
<1>s. \/ at[s] \in Active /\ at'[s] \in Active
         /\ (at'[s] \in Before <=> at[s] \in Before) /\ (at'[s] \in After <=> at[s] \in After)
      \/ ~Called(s) /\ at[s] \in {"unmapped", "new", "ended", "out away"} /\ at'[s] \in {"unmapped", "new"}
  BY DEF OnlyStack
<1>a. at'[s] # "in away" /\ at'[s] # "out away" /\ at'[s] # "ended" /\ at[s] # "in away"
  BY <1>s DEF Active, Calling, Before, After, Leaving, Returning
<1>b. Steady
  <2>1. /\ at'[s] \in Before <=> at[s] \in Before
        /\ at'[s] \in After <=> at[s] \in After
        /\ at'[s] \in Active <=> at[s] \in Active
        /\ Called(s) =>
             at'[s] \notin {"out away", "new", "ended"} /\ at[s] \notin {"out away", "new", "ended"}
    BY <1>s DEF Active, Calling, Before, After, Leaving, Returning
  <2> QED
    BY <1>on, <1>at, <1>a, <2>1 DEF Steady, Called
<1>1. Placed'
  <2>1. \A u \in Carriers : sp'[u] = Address(On(u), frames'[On(u)])
    <3>1. ASSUME NEW u \in Carriers, On(u) = s
          PROVE  sp'[u] = Address(s, frames'[s])
      BY <3>1 DEF OnStack
    <3>2. ASSUME NEW u \in Carriers, On(u) # s
          PROVE  sp'[u] = sp[u] /\ frames'[On(u)] = frames[On(u)]
      BY <1>on, <3>2 DEF OnlyStack
    <3> QED
      BY <3>1, <3>2, Here
  <2>2. \A u \in Carriers : at'[u] = at[u] \/ at'[u] \in {"run"} \cup Calling
    BY <1>at, Names DEF OnlyStack
  <2> QED
    BY <1>b, <1>on, <2>1, <2>2, PlacedSteady DEF Steady
<1>2. Carried' /\ Exceptions'
  <2>1. ASSUME NEW u \in Carriers
        PROVE
          /\ curr'[u] = IF at'[On(u)'] \in {"in pushed", "in back"} THEN callee'[On(u)'] ELSE On(u)'
          /\ u \in switching' <=> at'[On(u)'] \in Locking
          /\ smThis'[u] = IF at'[On(u)'] \in Calling THEN callee'[On(u)'] ELSE Self(On(u)')
          /\ ehSlot'[u] = curr'[u]
    <3>1. CASE On(u) = s
      BY <1>on, <3>1 DEF OnStack
    <3>2. CASE On(u) # s
      <4>1. /\ curr'[u] = curr[u] /\ smThis'[u] = smThis[u] /\ ehSlot'[u] = ehSlot[u]
            /\ u \in switching' <=> u \in switching
        BY <3>2 DEF OnlyStack
      <4>2. /\ curr[u] = IF at[On(u)] \in {"in pushed", "in back"} THEN callee[On(u)] ELSE On(u)
            /\ u \in switching <=> at[On(u)] \in Locking
            /\ smThis[u] = IF at[On(u)] \in Calling THEN callee[On(u)] ELSE Self(On(u))
            /\ ehSlot[u] = curr[u]
        BY DEF Inv, Carried, Exceptions
      <4> QED
        BY <1>on, <1>at, <3>2, <4>1, <4>2
    <3> QED
      BY <3>1, <3>2
  <2>2. \A r \in Stacks : ehContext'[r] = r
    BY DEF OnlyStack
  <2> QED
    BY <2>1, <2>2 DEF Carried, Exceptions
<1>3. Calls'
  <2>1. ASSUME NEW r \in Stacks, at'[r] \in {"in pushed", "in away", "in back"}
        PROVE  within'[callee[r]] = r
    <3>1. CASE r = s
      BY <1>on, <1>a, <2>1, <3>1 DEF Settled
    <3>2. CASE r # s
      <4>1. at[r] \in {"in pushed", "in away", "in back"} /\ within'[callee[r]] = within[callee[r]]
        BY <1>at, <2>1, <3>2 DEF OnlyStack
      <4> QED
        BY <4>1 DEF Inv, Calls
    <3> QED
      BY <3>1, <3>2
  <2> QED
    BY <1>b, <2>1, CallsSteady
<1>4. LocalsFit'
  <2>0. LocalsFit
    BY DEF Inv
  <2>f. \A r \in Stacks : r # s => locals'[r] = locals[r] /\ frames'[r] = frames[r]
    BY DEF OnlyStack
  <2>1. ASSUME NEW r \in Stacks, at'[r] \in Calling \cup Leaving \cup Returning \cup {"in away", "out away"}
        PROVE  locals'[r] \in Locals /\ locals'[r].cur = Self(r) /\ locals'[r].oldp = r
    <3>1. CASE r = s
      BY <1>a, <2>1, <3>1 DEF Settled, Self
    <3>2. CASE r # s
      BY <1>at, <2>0, <2>f, <2>1, <3>2 DEF LocalsFit
    <3> QED
      BY <3>1, <3>2
  <2>2. ASSUME NEW u \in Carriers, at'[On(u)] \in Calling \cup Leaving \cup {"out unlocked"}
        PROVE  locals'[On(u)].tobj = u
    <3>1. CASE On(u) = s
      BY <2>2, <3>1 DEF OnStack
    <3>2. CASE On(u) # s
      BY <1>on, <1>at, <2>0, <2>f, <2>2, <3>2 DEF LocalsFit
    <3> QED
      BY <3>1, <3>2
  <2>3. ASSUME NEW r \in Stacks, at[r] \in Calling \cup {"in away"}, at'[callee[r]] \in Leaving
        PROVE  locals'[callee[r]].newp = Address(r, frames[r])
    <3>1. CASE callee[r] = s
      BY <2>3, <3>1
    <3>2. CASE callee[r] # s
      <4>1. callee[r] \in Stacks /\ at[callee[r]] \in Leaving
        BY <1>at, <2>3, <3>2, Facts
      <4> QED
        BY <2>0, <2>f, <2>3, <3>2, <4>1 DEF LocalsFit
    <3> QED
      BY <3>1, <3>2
  <2>4. ASSUME NEW r \in Stacks, at[r] \in Calling \cup {"in away"}
        PROVE  /\ locals'[r] = locals[r] /\ frames'[r] = frames[r]
               /\ at[callee[r]] \in {"new", "out away"} => frames'[callee[r]] = frames[callee[r]]
    <3>1. locals'[r] = locals[r] /\ frames'[r] = frames[r]
      <4>1. at[s] \in Calling => locals'[s] = locals[s] /\ frames'[s] = frames[s]
        BY DEF OnlyStack
      <4> QED
        BY <1>a, <2>4, <2>f, <4>1
    <3>2. callee[r] \in Stacks /\ Called(callee[r])
      BY <2>4, Facts DEF Called
    <3>3. callee[r] = s => at[s] \notin {"new", "out away"}
      BY <1>s, <3>2 DEF Active, Calling, Before, After, Leaving, Returning
    <3> QED
      BY <2>f, <3>1, <3>2, <3>3
  <2> QED
    BY <1>b, <2>1, <2>2, <2>3, <2>4, LocalsSteady
<1>5. States'
  <2>1. ASSUME NEW f \in Fibers
        PROVE  /\ at'[f] \in {"run", "in away"} \cup Calling => state'[f] = "EXEC"
               /\ at'[f] \in {"new", "entry", "entered", "out away"} \cup Returning => state'[f] = "HOLD"
               /\ at'[f] \in Leaving => state'[f] \in {"HOLD", "TERM"}
               /\ at'[f] \in {"ended", "unmapped"} => state'[f] = "TERM"
    <3>1. CASE f = s
      BY <1>a, <3>1 DEF Settled
    <3>2. CASE f # s
      <4>1. f \in Stacks /\ state'[f] = state[f]
        BY <3>2, Names DEF OnlyStack
      <4> QED
        BY <1>at, <3>2, <4>1 DEF Inv, States
    <3> QED
      BY <3>1, <3>2
  <2> QED
    BY <2>1 DEF States
<1>6. Tops'
  <2>0. Tops
    BY DEF Inv
  <2>1. ASSUME NEW r \in Stacks
        PROVE
       /\ tstack'[r].stack = r
       /\ at'[r] \in {"in away", "out away", "new", "in back", "in popped", "out back", "entry"} =>
            tstack'[r] = Address(r, frames'[r])
       /\ at'[r] \in {"unmapped", "new", "ended", "entry", "entered"} <=> frames'[r] = 0
       /\ at'[r] = "unmapped" \/ (at'[r] = "ended" /\ ~Called(r)') => tstack'[r] = Bottom(r)
    <3>1. CASE r = s
      BY <1>a, <3>1 DEF Settled, Bottom
    <3>2. CASE r # s
      <4>1. tstack'[r] = tstack[r] /\ frames'[r] = frames[r]
        BY <3>2 DEF OnlyStack
      <4> QED
        BY <1>at, <1>c, <2>0, <3>2, <4>1 DEF Tops
    <3> QED
      BY <3>1, <3>2
  <2>2. ASSUME NEW u \in halted' \cup {stopper'}, u \in Carriers \ switching'
        PROVE  tstack'[On(u)'] = sp'[u]
    <3>1. u \in halted \cup {stopper} /\ On(u) # s /\ On(u) \in Stacks /\ On(u)' = On(u)
      BY <1>on, <2>2 DEF OnlyStack
    <3>2. u \in Carriers \ switching /\ sp'[u] = sp[u] /\ tstack'[On(u)] = tstack[On(u)]
      BY <2>2, <3>1 DEF OnlyStack
    <3> QED
      BY <2>0, <3>1, <3>2 DEF Tops
  <2> QED
    BY <2>1, <2>2 DEF Tops
<1>7. Kept'
  <2>0. Kept
    BY DEF Inv
  <2>1. ASSUME NEW f \in Fibers
        PROVE  /\ f \in listed' <=> at'[f] # "unmapped"
               /\ f \in held' \cup condemned' => f \in listed'
               /\ f \in condemned' => f \notin held' /\ ~Called(f)' /\ at'[f] \in {"new", "ended"}
    <3>1. CASE f = s
      BY <3>1 DEF Settled
    <3>2. CASE f # s
      <4>1. f \in Stacks /\ at'[f] = at[f]
        BY <1>at, <3>2, Names
      <4>2. (f \in listed' <=> f \in listed) /\ (f \in held' <=> f \in held)
            /\ (f \in condemned' <=> f \in condemned)
        BY <3>2 DEF OnlyStack
      <4> QED
        BY <1>c, <2>0, <4>1, <4>2 DEF Kept
    <3> QED
      BY <3>1, <3>2
  <2>2. held' \subseteq Fibers /\ condemned' \subseteq Fibers
    BY DEF TypeOK
  <2>3. ASSUME stopper # NoFiber
        PROVE  at'[On(stopper)'] = "run" /\ stopper \notin halted
    <3>1. stopper \in Carriers
      BY <2>3, Facts
    <3>2. On(stopper) # s /\ On(stopper)' = On(stopper) /\ On(stopper) \in Stacks
      BY <1>on, <3>1 DEF OnlyStack
    <3> QED
      BY <1>at, <2>0, <2>3, <3>2 DEF Kept
  <2> QED
    BY <1>on, <2>1, <2>2, <2>3 DEF Kept
<1> QED
  BY <1>1, <1>2, <1>3, <1>4, <1>5, <1>6, <1>7 DEF Inv

\* The stack a thread is on.
LEMMA Now ==
  ASSUME Inv, NEW t \in Carriers, NEW s, s = On(t)
  PROVE  /\ s \in Stacks /\ OnStack(t, s) /\ Settled(s)
         /\ \A u \in Carriers : On(u) \in Stacks /\ (On(u) = s => u = t)
<1>1. s \in Stacks /\ \A u \in Carriers : On(u) \in Stacks /\ (On(u) = s => u = t)
  BY Here
<1>2. OnStack(t, s)
  BY DEF Inv, Placed, Carried, Exceptions, LocalsFit, OnStack
<1>3. /\ at[s] \in {"in pushed", "in back"} => within[callee[s]] = s
      /\ at[s] \in Calling \cup Leaving \cup Returning =>
           locals[s] \in Locals /\ locals[s].cur = Self(s) /\ locals[s].oldp = s
  BY <1>1 DEF Inv, Calls, LocalsFit
<1>4. /\ tstack[s].stack = s
      /\ at[s] \in {"new", "in back", "in popped", "out back", "entry"} => tstack[s] = Address(s, frames[s])
      /\ at[s] = "unmapped" => tstack[s] = Bottom(s)
      /\ at[s] \in {"unmapped", "new", "ended", "entry", "entered"} <=> frames[s] = 0
  BY <1>1 DEF Inv, Tops
<1>5. at[s] # "ended"
  BY Here DEF Active, Calling, Before, After, Leaving, Returning
<1>6. ASSUME s \in Fibers
      PROVE
       /\ at[s] \in {"run"} \cup Calling => state[s] = "EXEC"
       /\ at[s] \in {"new", "entry", "entered"} \cup Returning => state[s] = "HOLD"
       /\ at[s] \in Leaving => state[s] \in {"HOLD", "TERM"}
       /\ at[s] = "unmapped" => state[s] = "TERM"
       /\ s \in listed <=> at[s] # "unmapped"
       /\ s \in held \cup condemned => s \in listed
       /\ s \in condemned => s \notin held /\ ~Called(s) /\ at[s] \in {"new", "ended"}
  BY <1>6 DEF Inv, States, Kept
<1> QED
  BY <1>1, <1>2, <1>3, <1>4, <1>5, <1>6 DEF Settled

\* The callee of a stack in callImpl is another stack.
LEMMA CalleeOf ==
  ASSUME Inv, NEW t \in Carriers, at[On(t)] \in Calling
  PROVE  callee[On(t)] \in Fibers /\ callee[On(t)] \in Stacks /\ callee[On(t)] # On(t)
BY There

\* Only a fiber leaves by switchOut and begins in fiber_entryPoint.
LEMMA OnFiber ==
  ASSUME Inv, NEW t \in Carriers, at[On(t)] \in {"entry", "entered"} \cup Leaving \cup Returning
  PROVE  On(t) \in Fibers /\ On(t) \notin Carriers /\ Self(On(t)) = On(t)
BY There, Names DEF Self

\* switchIn, after the switch back: m_lock is given back.
LEMMA InvCallUnlock ==
  ASSUME Inv, NEW t \in Carriers, CallUnlock(t)
  PROVE  Inv'
<1>1. PICK s \in Stacks : s = On(t) /\ at[s] = "in popped" /\ t \notin halted /\ stopper # t
  BY Here DEF CallUnlock, At
<1>2. OnStack(t, s) /\ Settled(s) /\ \A u \in Carriers : On(u) \in Stacks /\ (On(u) = s => u = t)
  BY <1>1, Now
<1>3. /\ UNCHANGED <<sp, frames, callee, locals, tstack, within, ehContext, listed>>
      /\ UNCHANGED <<curr, smThis, ehSlot, stopper, halted, condemned, state, held>>
      /\ at' = [at EXCEPT ![s] = "in unlocked"] /\ switching' = switching \ {t}
  BY <1>1, <1>2 DEF CallUnlock, Goto, OnStack, Calling, After, contextVars, worldVars
<1>4. TypeOK'
  BY <1>3 DEF Inv, TypeOK, FiberPlaces, Active, Calling, After
<1>5. OnlyStack(s)
  <2>1. /\ at'[s] = "in unlocked" /\ \A r \in Stacks : r # s => at'[r] = at[r]
        /\ \A u \in Carriers : On(u)' = On(u)
    BY <1>3 DEF Inv, TypeOK, On
  <2>2. at'[s] \in Active \cap After \cap Calling /\ at[s] \in Active \cap After /\ {at[s], at'[s]} \cap Before = {}
    BY <1>1, <2>1 DEF Active, Calling, Before, After
  <2> QED
    BY <1>1, <1>2, <1>3, <2>1, <2>2 DEF OnlyStack, Inv, Exceptions
<1>6. OnStack(t, s)' /\ Settled(s)'
  <2>1. at'[s] = "in unlocked"
    BY <1>3 DEF Inv, TypeOK
  <2> QED
    BY <1>1, <1>2, <1>3, <2>1
    DEF OnStack, Settled, Called, Locking, Calling, Before, After, Leaving, Returning
<1>7. at'[s] \notin Leaving /\ \A u \in Carriers : On(u) = s => OnStack(u, s)'
  BY <1>2, <1>3, <1>6 DEF Inv, TypeOK, Leaving
<1> QED
  BY <1>4, <1>5, <1>6, <1>7, OneStack

\* switchIn: pushContext.
LEMMA InvPushContext ==
  ASSUME Inv, NEW t \in Carriers, PushContext(t)
  PROVE  Inv'
<1>1. PICK s \in Stacks : s = On(t) /\ at[s] = "in locked" /\ t \notin halted /\ stopper # t
  BY Here DEF PushContext, At
<1>2. OnStack(t, s) /\ Settled(s) /\ \A u \in Carriers : On(u) \in Stacks /\ (On(u) = s => u = t)
  BY <1>1, Now
<1>f. PICK f \in Fibers : f = callee[s] /\ f \in Stacks /\ f # s
  BY <1>1, CalleeOf DEF Calling, Before
<1>3. /\ UNCHANGED <<sp, frames, callee, locals, tstack, listed, switching, smThis>>
      /\ UNCHANGED <<stopper, halted, condemned, state, held>>
      /\ at' = [at EXCEPT ![s] = "in pushed"] /\ within' = [within EXCEPT ![f] = s]
      /\ curr' = [curr EXCEPT ![t] = f] /\ ehSlot' = [ehSlot EXCEPT ![t] = f]
      /\ ehContext' = [ehContext EXCEPT ![s] = s]
  BY <1>1, <1>2, <1>f DEF PushContext, Goto, OnStack, Calling, Before, worldVars, Inv, Exceptions
<1>4. TypeOK'
  BY <1>3, <1>f DEF Inv, TypeOK, FiberPlaces, Active, Calling, Before
<1>5. OnlyStack(s)
  <2>1. /\ at'[s] = "in pushed" /\ \A r \in Stacks : r # s => at'[r] = at[r]
        /\ \A u \in Carriers : On(u)' = On(u)
    BY <1>3 DEF Inv, TypeOK, On
  <2>2. at'[s] \in Active \cap Before \cap Calling /\ at[s] \in Active \cap Before /\ {at[s], at'[s]} \cap After = {}
    BY <1>1, <2>1 DEF Active, Calling, Before, After
  <2>3. ASSUME NEW r \in Stacks, r # s, at[r] \in {"in pushed", "in away", "in back"}
        PROVE  within'[callee[r]] = within[callee[r]]
    <3>1. callee[r] \in Stacks /\ callee[r] # f
      <4>1. callee[r] \in Fibers /\ callee[r] \in Stacks
        BY <2>3, Facts DEF Calling, Before, After
      <4>2. callee[r] # NoFiber
        BY <4>1, Names
      <4>3. \A q, p \in Stacks : callee[q] # NoFiber /\ callee[q] = callee[p] => q = p
        BY DEF Inv, Calls
      <4>4. callee[r] # callee[s]
        BY <2>3, <4>2, <4>3
      <4> QED
        BY <1>f, <4>1, <4>4
    <3> QED
      BY <1>3, <3>1 DEF Inv, TypeOK
  <2>4. /\ \A r \in Stacks : ehContext'[r] = r
        /\ \A u \in Carriers : u # t => curr'[u] = curr[u] /\ ehSlot'[u] = ehSlot[u]
    BY <1>3 DEF Inv, TypeOK, Exceptions
  <2> QED
    BY <1>1, <1>2, <1>3, <2>1, <2>2, <2>3, <2>4 DEF OnlyStack
<1>6. OnStack(t, s)' /\ Settled(s)'
  <2>1. at'[s] = "in pushed" /\ curr'[t] = f /\ ehSlot'[t] = f /\ within'[f] = s
    BY <1>3, <1>f DEF Inv, TypeOK
  <2> QED
    BY <1>1, <1>2, <1>3, <1>f, <2>1
    DEF OnStack, Settled, Called, Locking, Calling, Before, After, Leaving, Returning
<1>7. at'[s] \notin Leaving /\ \A u \in Carriers : On(u) = s => OnStack(u, s)'
  BY <1>2, <1>3, <1>6 DEF Inv, TypeOK, Leaving
<1> QED
  BY <1>4, <1>5, <1>6, <1>7, OneStack

\* switchIn, after the switch back: popContext.
LEMMA InvPopContext ==
  ASSUME Inv, NEW t \in Carriers, PopContext(t)
  PROVE  Inv'
<1>1. PICK s \in Stacks : s = On(t) /\ at[s] = "in back" /\ t \notin halted /\ stopper # t
  BY Here DEF PopContext, At
<1>2. OnStack(t, s) /\ Settled(s) /\ \A u \in Carriers : On(u) \in Stacks /\ (On(u) = s => u = t)
  BY <1>1, Now
<1>f. PICK f \in Fibers : f = callee[s] /\ f \in Stacks /\ f # s
  BY <1>1, CalleeOf DEF Calling, After
<1>3. /\ UNCHANGED <<sp, frames, callee, locals, tstack, listed, switching, smThis>>
      /\ UNCHANGED <<stopper, halted, condemned, state, held>>
      /\ at' = [at EXCEPT ![s] = "in popped"] /\ within' = [within EXCEPT ![f] = NoFiber]
      /\ curr' = [curr EXCEPT ![t] = s] /\ ehSlot' = [ehSlot EXCEPT ![t] = s]
      /\ ehContext' = [ehContext EXCEPT ![f] = f]
  <2>1. curr[t] = f /\ ehSlot[t] = f /\ locals[s].tobj = t /\ within[f] = s
    BY <1>1, <1>2, <1>f DEF OnStack, Settled, Calling, After
  <2>2. ehContext[s] = s
    BY DEF Inv, Exceptions
  <2> QED
    BY <1>1, <2>1, <2>2 DEF PopContext, Goto, worldVars
<1>4. TypeOK'
  BY <1>3, <1>f DEF Inv, TypeOK, FiberPlaces, Active, Calling, After
<1>5. OnlyStack(s)
  <2>1. /\ at'[s] = "in popped" /\ \A r \in Stacks : r # s => at'[r] = at[r]
        /\ \A u \in Carriers : On(u)' = On(u)
    BY <1>3 DEF Inv, TypeOK, On
  <2>2. at'[s] \in Active \cap After \cap Calling /\ at[s] \in Active \cap After /\ {at[s], at'[s]} \cap Before = {}
    BY <1>1, <2>1 DEF Active, Calling, Before, After
  <2>3. ASSUME NEW r \in Stacks, r # s, at[r] \in {"in pushed", "in away", "in back"}
        PROVE  within'[callee[r]] = within[callee[r]]
    <3>1. callee[r] \in Stacks /\ callee[r] # f
      <4>1. callee[r] \in Fibers /\ callee[r] \in Stacks
        BY <2>3, Facts DEF Calling, Before, After
      <4>2. callee[r] # NoFiber
        BY <4>1, Names
      <4>3. \A q, p \in Stacks : callee[q] # NoFiber /\ callee[q] = callee[p] => q = p
        BY DEF Inv, Calls
      <4>4. callee[r] # callee[s]
        BY <2>3, <4>2, <4>3
      <4> QED
        BY <1>f, <4>1, <4>4
    <3> QED
      BY <1>3, <3>1 DEF Inv, TypeOK
  <2>4. /\ \A r \in Stacks : ehContext'[r] = r
        /\ \A u \in Carriers : u # t => curr'[u] = curr[u] /\ ehSlot'[u] = ehSlot[u]
    BY <1>3 DEF Inv, TypeOK, Exceptions
  <2> QED
    BY <1>1, <1>2, <1>3, <2>1, <2>2, <2>3, <2>4 DEF OnlyStack
<1>6. OnStack(t, s)' /\ Settled(s)'
  <2>1. at'[s] = "in popped" /\ curr'[t] = s /\ ehSlot'[t] = s
    BY <1>3 DEF Inv, TypeOK
  <2> QED
    BY <1>1, <1>2, <1>3, <1>f, <2>1
    DEF OnStack, Settled, Called, Locking, Calling, Before, After, Leaving, Returning
<1>7. at'[s] \notin Leaving /\ \A u \in Carriers : On(u) = s => OnStack(u, s)'
  BY <1>2, <1>3, <1>6 DEF Inv, TypeOK, Leaving
<1> QED
  BY <1>4, <1>5, <1>6, <1>7, OneStack

\* fiber_entryPoint: m_lock is given back.
LEMMA InvEntryUnlock ==
  ASSUME Inv, NEW t \in Carriers, EntryUnlock(t)
  PROVE  Inv'
<1>1. PICK s \in Stacks : s = On(t) /\ at[s] = "entry" /\ t \notin halted /\ stopper # t
  BY Here DEF EntryUnlock, At
<1>2. /\ OnStack(t, s) /\ Settled(s) /\ s \notin Carriers
      /\ \A u \in Carriers : On(u) \in Stacks /\ (On(u) = s => u = t)
  BY <1>1, Now, OnFiber
<1>3. /\ UNCHANGED <<sp, frames, callee, locals, tstack, within, ehContext, listed>>
      /\ UNCHANGED <<curr, smThis, ehSlot, stopper, halted, condemned, state, held>>
      /\ at' = [at EXCEPT ![s] = "entered"] /\ switching' = switching \ {t}
  BY <1>1 DEF EntryUnlock, Goto, contextVars, worldVars
<1>4. TypeOK'
  BY <1>3 DEF Inv, TypeOK, FiberPlaces, Active
<1>5. OnlyStack(s)
  <2>1. /\ at'[s] = "entered" /\ \A r \in Stacks : r # s => at'[r] = at[r]
        /\ \A u \in Carriers : On(u)' = On(u)
    BY <1>3 DEF Inv, TypeOK, On
  <2>2. {at[s], at'[s]} \subseteq Active /\ {at[s], at'[s]} \cap (Before \cup After \cup Calling) = {}
    BY <1>1, <2>1 DEF Active, Calling, Before, After
  <2> QED
    BY <1>1, <1>2, <1>3, <2>1, <2>2 DEF OnlyStack, Inv, Exceptions
<1>6. OnStack(t, s)' /\ Settled(s)'
  <2>1. at'[s] = "entered"
    BY <1>3 DEF Inv, TypeOK
  <2> QED
    BY <1>1, <1>2, <1>3, <2>1
    DEF OnStack, Settled, Called, Locking, Calling, Before, After, Leaving, Returning
<1>7. at'[s] \notin Leaving /\ \A u \in Carriers : On(u) = s => OnStack(u, s)'
  BY <1>2, <1>3, <1>6 DEF Inv, TypeOK, Leaving
<1> QED
  BY <1>4, <1>5, <1>6, <1>7, OneStack

\* fiber_entryPoint: the function of the fiber begins.
LEMMA InvEntryRun ==
  ASSUME Inv, NEW t \in Carriers, EntryRun(t)
  PROVE  Inv'
<1>1. PICK s \in Stacks : s = On(t) /\ at[s] = "entered" /\ t \notin halted /\ stopper # t
  BY Here DEF EntryRun, At
<1>2. /\ OnStack(t, s) /\ Settled(s) /\ s \in Fibers /\ s \notin Carriers /\ Self(s) = s
      /\ \A u \in Carriers : On(u) \in Stacks /\ (On(u) = s => u = t)
  BY <1>1, Now, OnFiber
<1>3. /\ UNCHANGED <<callee, locals, within, ehContext, listed, held>>
      /\ UNCHANGED <<curr, switching, smThis, ehSlot, stopper, halted, condemned>>
      /\ at' = [at EXCEPT ![s] = "run"] /\ tstack' = [tstack EXCEPT ![s] = Bottom(s)]
      /\ state' = [state EXCEPT ![s] = "EXEC"] /\ frames' = [frames EXCEPT ![s] = 1]
      /\ sp' = [sp EXCEPT ![t] = Address(s, 1)]
  BY <1>1, <1>2 DEF EntryRun, Goto, OnStack, Calling, Before, After, threadVars, worldVars
<1>4. TypeOK'
  <2>1. Bottom(s) \in Addresses /\ Address(s, 1) \in Addresses
    BY DEF Bottom, Address, Addresses
  <2> QED
    BY <1>2, <1>3, <2>1 DEF Inv, TypeOK, FiberPlaces, Active
<1>5. OnlyStack(s)
  <2>1. /\ at'[s] = "run" /\ \A r \in Stacks : r # s => at'[r] = at[r]
        /\ sp'[t] = Address(s, 1) /\ \A u \in Carriers : u # t => sp'[u] = sp[u]
    BY <1>3 DEF Inv, TypeOK
  <2>2. \A u \in Carriers : On(u)' = On(u)
    BY <1>1, <2>1 DEF On, Address
  <2>3. {at[s], at'[s]} \subseteq Active /\ {at[s], at'[s]} \cap (Before \cup After \cup Calling) = {}
    BY <1>1, <2>1 DEF Active, Calling, Before, After
  <2>4. /\ \A r \in Stacks : r # s => tstack'[r] = tstack[r] /\ frames'[r] = frames[r]
        /\ \A f \in Fibers : f # s => state'[f] = state[f]
    BY <1>3 DEF Inv, TypeOK
  <2> QED
    BY <1>1, <1>2, <1>3, <2>2, <2>3 DEF OnlyStack, Inv, Exceptions
<1>6. OnStack(t, s)' /\ Settled(s)'
  <2>1. /\ at'[s] = "run" /\ sp'[t] = Address(s, 1) /\ frames'[s] = 1 /\ state'[s] = "EXEC"
        /\ tstack'[s].stack = s
    BY <1>2, <1>3 DEF Inv, TypeOK, Bottom, Address
  <2>2. at'[s] \notin Locking \cup Calling \cup Leaving \cup Returning
        /\ at[s] \notin Locking \cup Calling
    BY <1>1, <2>1 DEF Locking, Calling, Before, After, Leaving, Returning
  <2>3. OnStack(t, s)'
    BY <1>1, <1>2, <1>3, <2>1, <2>2 DEF OnStack
  <2>4. s \in listed' /\ s \notin condemned'
    BY <1>1, <1>2, <1>3 DEF Settled
  <2>5. Settled(s)'
    BY <2>1, <2>2, <2>4 DEF Settled
  <2> QED
    BY <2>3, <2>5
<1>7. at'[s] \notin Leaving /\ \A u \in Carriers : On(u) = s => OnStack(u, s)'
  BY <1>2, <1>3, <1>6 DEF Inv, TypeOK, Leaving
<1> QED
  BY <1>4, <1>5, <1>6, <1>7, OneStack

\* switchOut, after the fiber was called again: m_lock of the thread it is in now.
LEMMA InvYieldUnlock ==
  ASSUME Inv, NEW t \in Carriers, YieldUnlock(t)
  PROVE  Inv'
<1>1. PICK s \in Stacks : s = On(t) /\ at[s] = "out back" /\ t \notin halted /\ stopper # t
  BY Here DEF YieldUnlock, At
<1>2. /\ OnStack(t, s) /\ Settled(s) /\ s \in Fibers /\ s \notin Carriers /\ Self(s) = s
      /\ \A u \in Carriers : On(u) \in Stacks /\ (On(u) = s => u = t)
  BY <1>1, Now, OnFiber DEF Returning
<1>l. PICK new \in Locals : /\ new.cur = s /\ new.tobj = t /\ new.oldp = s
                            /\ new = [cur |-> locals[s].cur, tobj |-> t, oldp |-> locals[s].oldp,
                                      newp |-> locals[s].newp]
  BY <1>1, <1>2 DEF Settled, Returning, Locals
<1>3. /\ UNCHANGED <<sp, frames, callee, tstack, within, ehContext, listed>>
      /\ UNCHANGED <<curr, smThis, ehSlot, stopper, halted, condemned, state, held>>
      /\ at' = [at EXCEPT ![s] = "out unlocked"] /\ switching' = switching \ {t}
      /\ locals' = [locals EXCEPT ![s] = new]
  BY <1>1, <1>l DEF YieldUnlock, Goto, contextVars, worldVars
<1>4. TypeOK'
  BY <1>3 DEF Inv, TypeOK, FiberPlaces, Active, Returning
<1>5. OnlyStack(s)
  <2>1. /\ at'[s] = "out unlocked" /\ \A r \in Stacks : r # s => at'[r] = at[r] /\ locals'[r] = locals[r]
        /\ \A u \in Carriers : On(u)' = On(u)
    BY <1>3 DEF Inv, TypeOK, On
  <2>2. {at[s], at'[s]} \subseteq Active /\ {at[s], at'[s]} \cap (Before \cup After \cup Calling) = {}
    BY <1>1, <2>1 DEF Active, Calling, Before, After, Returning
  <2> QED
    BY <1>1, <1>2, <1>3, <2>1, <2>2 DEF OnlyStack, Inv, Exceptions
<1>6. OnStack(t, s)' /\ Settled(s)'
  <2>1. at'[s] = "out unlocked" /\ locals'[s] = new
    BY <1>3 DEF Inv, TypeOK
  <2> QED
    BY <1>1, <1>2, <1>l, <1>3, <2>1
    DEF OnStack, Settled, Called, Locking, Calling, Before, After, Leaving, Returning
<1>7. at'[s] \notin Leaving /\ \A u \in Carriers : On(u) = s => OnStack(u, s)'
  BY <1>2, <1>3, <1>6 DEF Inv, TypeOK, Leaving
<1> QED
  BY <1>4, <1>5, <1>6, <1>7, OneStack

\* switchOut returns.
LEMMA InvYieldEnd ==
  ASSUME Inv, NEW t \in Carriers, YieldEnd(t)
  PROVE  Inv'
<1>1. PICK s \in Stacks : s = On(t) /\ at[s] = "out unlocked" /\ t \notin halted /\ stopper # t
  BY Here DEF YieldEnd, At
<1>2. /\ OnStack(t, s) /\ Settled(s) /\ s \in Fibers /\ s \notin Carriers /\ Self(s) = s
      /\ \A u \in Carriers : On(u) \in Stacks /\ (On(u) = s => u = t)
  BY <1>1, Now, OnFiber DEF Returning
<1>3. /\ UNCHANGED <<sp, frames, callee, within, ehContext, listed, held>>
      /\ UNCHANGED <<curr, switching, smThis, ehSlot, stopper, halted, condemned>>
      /\ at' = [at EXCEPT ![s] = "run"] /\ tstack' = [tstack EXCEPT ![s] = Bottom(s)]
      /\ state' = [state EXCEPT ![s] = "EXEC"] /\ locals' = [locals EXCEPT ![s] = NoFiber]
  BY <1>1, <1>2 DEF YieldEnd, Goto, OnStack, Settled, Returning, threadVars, worldVars
<1>4. TypeOK'
  <2>1. Bottom(s) \in Addresses
    BY DEF Bottom, Address, Addresses
  <2> QED
    BY <1>2, <1>3, <2>1 DEF Inv, TypeOK, FiberPlaces, Active
<1>5. OnlyStack(s)
  <2>1. /\ at'[s] = "run" /\ \A r \in Stacks : r # s => at'[r] = at[r] /\ locals'[r] = locals[r]
        /\ \A u \in Carriers : On(u)' = On(u)
    BY <1>3 DEF Inv, TypeOK, On
  <2>2. {at[s], at'[s]} \subseteq Active /\ {at[s], at'[s]} \cap (Before \cup After \cup Calling) = {}
    BY <1>1, <2>1 DEF Active, Calling, Before, After, Returning
  <2>3. /\ \A r \in Stacks : r # s => tstack'[r] = tstack[r]
        /\ \A f \in Fibers : f # s => state'[f] = state[f]
    BY <1>3 DEF Inv, TypeOK
  <2> QED
    BY <1>1, <1>2, <1>3, <2>1, <2>2, <2>3 DEF OnlyStack, Inv, Exceptions
<1>6. OnStack(t, s)' /\ Settled(s)'
  <2>1. at'[s] = "run" /\ state'[s] = "EXEC" /\ tstack'[s].stack = s
    BY <1>2, <1>3 DEF Inv, TypeOK, Bottom, Address
  <2> QED
    BY <1>1, <1>2, <1>3, <2>1
    DEF OnStack, Settled, Called, Locking, Calling, Before, After, Leaving, Returning
<1>7. at'[s] \notin Leaving /\ \A u \in Carriers : On(u) = s => OnStack(u, s)'
  BY <1>2, <1>3, <1>6 DEF Inv, TypeOK, Leaving
<1> QED
  BY <1>4, <1>5, <1>6, <1>7, OneStack

\* yield and the end of the function: switchOut begins.
LEMMA InvLeaveBegin ==
  ASSUME Inv, NEW t \in Carriers, NEW newState \in {"HOLD", "TERM"}, On(t) \in Fibers,
         LeaveBegin(t, On(t), newState)
  PROVE  Inv'
<1>1. PICK s \in Stacks : s = On(t) /\ at[s] = "run" /\ t \notin halted /\ stopper # t
  BY Here DEF LeaveBegin, At
<1>2. /\ OnStack(t, s) /\ Settled(s) /\ s \in Fibers /\ s \notin Carriers /\ Self(s) = s
      /\ \A u \in Carriers : On(u) \in Stacks /\ (On(u) = s => u = t)
  BY <1>1, Now, Names DEF Self
<1>c. PICK c \in Stacks : /\ within[s] = c /\ tstack[c] = Address(c, frames[c])
                          /\ \A r \in Stacks : callee[r] = s => r = c
  <2>1. s \in Fibers /\ at[s] \in Active
    BY <1>1, <1>2 DEF Active
  <2> QED
    BY <2>1, Caller
<1>l. PICK new : new = [cur |-> s, tobj |-> t, oldp |-> s, newp |-> Address(c, frames[c])]
  OBVIOUS
<1>n. /\ new \in Locals /\ new.cur = s /\ new.tobj = t /\ new.oldp = s /\ new.newp = Address(c, frames[c])
      /\ Address(s, frames[s]) \in Addresses
  BY <1>2, <1>l DEF Locals, Addresses, Address, Inv, TypeOK
<1>3. /\ UNCHANGED <<sp, frames, callee, within, ehContext, listed, held>>
      /\ UNCHANGED <<curr, switching, smThis, ehSlot, stopper, halted, condemned>>
      /\ at' = [at EXCEPT ![s] = "out saved"] /\ tstack' = [tstack EXCEPT ![s] = Address(s, frames[s])]
      /\ state' = [state EXCEPT ![s] = newState] /\ locals' = [locals EXCEPT ![s] = new]
  BY <1>1, <1>2, <1>c, <1>l DEF LeaveBegin, Goto, OnStack, threadVars, worldVars
<1>4. TypeOK'
  BY <1>2, <1>3, <1>n DEF Inv, TypeOK, FiberPlaces, Active, Leaving
<1>v. /\ at'[s] = "out saved" /\ \A r \in Stacks : r # s => at'[r] = at[r] /\ locals'[r] = locals[r]
      /\ locals'[s] = new /\ state'[s] = newState /\ tstack'[s] = Address(s, frames[s])
      /\ \A u \in Carriers : On(u)' = On(u)
  BY <1>2, <1>3 DEF Inv, TypeOK, On
<1>p. /\ {at[s], at'[s]} \subseteq Active /\ {at[s], at'[s]} \cap (Before \cup After \cup Calling \cup Locking) = {}
      /\ at'[s] \notin Returning
  BY <1>1, <1>v DEF Active, Calling, Before, After, Locking, Leaving, Returning
<1>5. OnlyStack(s)
  <2>1. /\ \A r \in Stacks : r # s => tstack'[r] = tstack[r]
        /\ \A f \in Fibers : f # s => state'[f] = state[f]
    BY <1>3 DEF Inv, TypeOK
  <2> QED
    BY <1>1, <1>2, <1>3, <1>v, <1>p, <2>1 DEF OnlyStack, Inv, Exceptions
<1>6. OnStack(t, s)' /\ Settled(s)'
  <2>1. OnStack(t, s)'
    BY <1>1, <1>2, <1>3, <1>n, <1>v, <1>p DEF OnStack
  <2>2. tstack'[s].stack = s
    <3>1. Address(s, frames[s]).stack = s
      BY DEF Address
    <3> QED
      BY <1>v, <3>1
  <2>3. Settled(s)'
    BY <1>1, <1>2, <1>3, <1>n, <1>v, <1>p, <2>2 DEF Settled, Called
  <2> QED
    BY <2>1, <2>3
<1>7. /\ \A u \in Carriers : On(u) = s => OnStack(u, s)'
      /\ \A r \in Stacks : callee[r] = s => locals'[s].newp = Address(r, frames[r])
  BY <1>2, <1>6, <1>c, <1>n, <1>v
<1> QED
  BY <1>4, <1>5, <1>6, <1>7, OneStack

\* A function is called or returns.
LEMMA InvFrame ==
  ASSUME Inv, NEW t \in Carriers, At(t, "run"), NEW n \in Nat \ {0},
         frames' = [frames EXCEPT ![On(t)] = n], sp' = [sp EXCEPT ![t] = Address(On(t), n)],
         UNCHANGED <<at, callee, locals, contextVars, threadVars, worldVars, state, held>>
  PROVE  Inv'
<1>1. PICK s \in Stacks : s = On(t) /\ at[s] = "run" /\ t \notin halted /\ stopper # t
  BY Here DEF At
<1>2. /\ OnStack(t, s) /\ Settled(s)
      /\ \A u \in Carriers : On(u) \in Stacks /\ (On(u) = s => u = t)
  BY <1>1, Now
<1>3. /\ UNCHANGED <<at, callee, locals, tstack, within, ehContext, listed, held, state>>
      /\ UNCHANGED <<curr, switching, smThis, ehSlot, stopper, halted, condemned>>
      /\ frames' = [frames EXCEPT ![s] = n] /\ sp' = [sp EXCEPT ![t] = Address(s, n)]
  BY <1>1 DEF contextVars, threadVars, worldVars
<1>4. TypeOK'
  BY <1>3 DEF Inv, TypeOK, Address, Addresses
<1>v. /\ sp'[t] = Address(s, n) /\ \A u \in Carriers : u # t => sp'[u] = sp[u]
      /\ frames'[s] = n /\ \A r \in Stacks : r # s => frames'[r] = frames[r]
  BY <1>3 DEF Inv, TypeOK
<1>p. at[s] \in Active /\ at[s] \notin Before \cup After \cup Calling \cup Locking \cup Leaving \cup Returning
  BY <1>1 DEF Active, Calling, Before, After, Locking, Leaving, Returning
<1>5. OnlyStack(s)
  <2>1. \A u \in Carriers : On(u)' = On(u)
    BY <1>1, <1>v DEF On, Address
  <2> QED
    BY <1>1, <1>2, <1>3, <1>v, <1>p, <2>1 DEF OnlyStack, Inv, Exceptions
<1>6. OnStack(t, s)' /\ Settled(s)'
  <2>1. OnStack(t, s)'
    BY <1>1, <1>2, <1>3, <1>v, <1>p DEF OnStack
  <2>2. Settled(s)'
    BY <1>1, <1>2, <1>3, <1>v, <1>p DEF Settled, Called
  <2> QED
    BY <2>1, <2>2
<1>7. at'[s] \notin Leaving /\ \A u \in Carriers : On(u) = s => OnStack(u, s)'
  BY <1>2, <1>3, <1>6, <1>p
<1> QED
  BY <1>4, <1>5, <1>6, <1>7, OneStack

\* The program calls or leaves a function on a stack.
LEMMA InvPushPop ==
  ASSUME Inv, NEW t \in Carriers, Push(t) \/ Pop(t)
  PROVE  Inv'
<1>1. sp[t] = Address(On(t), frames[On(t)]) /\ sp[t].stack = On(t) /\ sp[t].frames = frames[On(t)]
  BY Here DEF Address
<1>2. frames[On(t)] \in Nat
  BY Here DEF Inv, TypeOK
<1>3. PICK n \in Nat \ {0} :
        /\ At(t, "run")
        /\ frames' = [frames EXCEPT ![On(t)] = n] /\ sp' = [sp EXCEPT ![t] = Address(On(t), n)]
        /\ UNCHANGED <<at, callee, locals, contextVars, threadVars, worldVars, state, held>>
  <2>1. CASE Push(t)
    <3>1. frames[On(t)] + 1 \in Nat \ {0}
      BY <1>2
    <3> QED
      BY <1>1, <2>1, <3>1 DEF Push
  <2>2. CASE Pop(t)
    <3>1. frames[On(t)] - 1 \in Nat \ {0}
      BY <1>2, <2>2 DEF Pop
    <3> QED
      BY <1>1, <2>2, <3>1 DEF Pop
  <2> QED
    BY <2>1, <2>2
<1> QED
  BY <1>3, InvFrame

\* switchIn and switchOut: m_lock.
LEMMA InvSetLock ==
  ASSUME Inv, NEW t \in Carriers, SetLock(t)
  PROVE  Inv'
<1>1. PICK s \in Stacks, p \in {"in locked", "out locked"} :
        /\ s = On(t) /\ t \notin halted /\ stopper # t
        /\ at[s] = (IF p = "in locked" THEN "in saved" ELSE "out saved") /\ Goto(s, p)
  BY Here DEF SetLock, At
<1>p. at[s] \in Active /\ at[s] \notin After \cup Locking \cup Returning
      /\ (at[s] \in Before <=> p \in Before) /\ (at[s] \in Calling <=> p \in Calling)
      /\ (at[s] \in Leaving <=> p \in Leaving) /\ at[s] \in Calling \cup Leaving
      /\ p \in Active /\ p \in Locking /\ p \notin After \cup Returning
      /\ p \in FiberPlaces /\ (p \in Calling <=> p = "in locked") /\ at[s] # "run"
  BY <1>1 DEF Active, Calling, Before, After, Locking, Leaving, Returning, FiberPlaces
<1>2. /\ OnStack(t, s) /\ Settled(s) /\ (s \in Carriers => p \in Calling)
      /\ \A u \in Carriers : On(u) \in Stacks /\ (On(u) = s => u = t)
  <2>1. OnStack(t, s) /\ Settled(s) /\ \A u \in Carriers : On(u) \in Stacks /\ (On(u) = s => u = t)
    BY <1>1, Now
  <2>2. at[s] \in Leaving => s \notin Carriers
    BY <1>1, OnFiber
  <2> QED
    BY <1>p, <2>1, <2>2
<1>3. /\ UNCHANGED <<sp, frames, callee, locals, tstack, within, ehContext, listed>>
      /\ UNCHANGED <<curr, smThis, ehSlot, stopper, halted, condemned, state, held>>
      /\ at' = [at EXCEPT ![s] = p] /\ switching' = switching \cup {t}
  BY <1>1, <1>2, <1>p DEF SetLock, Goto, OnStack, contextVars, worldVars
<1>4. TypeOK'
  BY <1>3, <1>p DEF Inv, TypeOK
<1>v. /\ at'[s] = p /\ \A r \in Stacks : r # s => at'[r] = at[r]
      /\ \A u \in Carriers : On(u)' = On(u)
  BY <1>3 DEF Inv, TypeOK, On
<1>5. OnlyStack(s)
  BY <1>1, <1>2, <1>3, <1>p, <1>v DEF OnlyStack, Inv, Exceptions
<1>6. OnStack(t, s)' /\ Settled(s)'
  <2>1. OnStack(t, s)'
    BY <1>1, <1>2, <1>3, <1>p, <1>v DEF OnStack
  <2>2. Settled(s)'
    BY <1>1, <1>2, <1>3, <1>p, <1>v DEF Settled, Called
  <2> QED
    BY <2>1, <2>2
<1>7. /\ \A u \in Carriers : On(u) = s => OnStack(u, s)'
      /\ at'[s] \in Leaving => \A r \in Stacks : callee[r] = s => locals'[s].newp = Address(r, frames[r])
  <2>1. ASSUME at'[s] \in Leaving, NEW r \in Stacks, callee[r] = s
        PROVE  locals[s].newp = Address(r, frames[r])
    <3>1. at[s] \in Leaving
      BY <1>p, <1>v, <2>1
    <3>2. at[r] \in Calling \cup {"in away"}
      BY <1>1, <2>1, Names DEF Inv, Calls
    <3> QED
      BY <2>1, <3>1, <3>2 DEF Inv, LocalsFit
  <2> QED
    BY <1>2, <1>3, <1>6, <2>1
<1> QED
  BY <1>4, <1>5, <1>6, <1>7, OneStack

\* A fiber that nobody executes is constructed, reset or freed.
LEMMA InvSetAside ==
  ASSUME Inv, NEW f \in Fibers, ~Called(f), f \notin condemned', held' \subseteq listed',
         NEW p \in {"new", "unmapped"}, f \in listed' <=> p = "new", f \in held' => p = "new",
         at[f] \in {"unmapped", "new", "ended", "out away"},
         at' = [at EXCEPT ![f] = p], tstack' = [tstack EXCEPT ![f] = Bottom(f)],
         frames' = [frames EXCEPT ![f] = 0],
         state' = [state EXCEPT ![f] = IF p = "new" THEN "HOLD" ELSE "TERM"],
         ehContext' = ehContext, UNCHANGED <<sp, callee, locals, within, threadVars, stopper, halted>>,
         \A g \in Fibers : g # f =>
           (g \in listed' <=> g \in listed) /\ (g \in held' <=> g \in held) /\ (g \in condemned' <=> g \in condemned),
         listed' \cup held' \cup condemned' \subseteq Fibers
  PROVE  Inv'
<1>1. /\ f \in Stacks /\ f \notin Carriers /\ Bottom(f) \in Addresses /\ Bottom(f).stack = f
      /\ Bottom(f) = Address(f, 0)
  BY Names DEF Bottom, Address, Addresses
<1>2. at[f] \notin Active /\ p \notin Active \cup Calling \cup Leaving \cup Returning /\ p \in FiberPlaces
  BY DEF Active, Calling, Before, After, Leaving, Returning, FiberPlaces
<1>3. \A u \in Carriers : On(u) # f
  BY <1>2, Here
<1>4. TypeOK'
  BY <1>1, <1>2 DEF Inv, TypeOK, threadVars
<1>v. /\ at'[f] = p /\ frames'[f] = 0 /\ tstack'[f] = Bottom(f)
      /\ state'[f] = IF p = "new" THEN "HOLD" ELSE "TERM"
      /\ \A r \in Stacks : r # f => at'[r] = at[r] /\ tstack'[r] = tstack[r] /\ frames'[r] = frames[r]
      /\ \A g \in Fibers : g # f => state'[g] = state[g]
      /\ \A u \in Carriers : On(u)' = On(u)
  BY <1>1 DEF Inv, TypeOK, On
<1>5. OnlyStack(f)
  <2>1. at[f] \notin Calling /\ {at[f], at'[f]} \subseteq {"unmapped", "new", "ended", "out away"}
    BY <1>2, <1>v DEF Active
  <2>2. \A r \in Stacks : ehContext'[r] = r
    BY DEF Inv, Exceptions
  <2> QED
    BY <1>1, <1>3, <1>v, <2>1, <2>2 DEF OnlyStack, threadVars
<1>6. Settled(f)'
  BY <1>1, <1>2, <1>v DEF Settled
<1>7. at'[f] \notin Leaving
  BY <1>2, <1>v
<1> QED
  BY <1>1, <1>3, <1>4, <1>5, <1>6, <1>7, OneStack

\* The constructor: a stack and a context for a fiber.
LEMMA InvCreate ==
  ASSUME Inv, NEW t \in Carriers, NEW f \in Fibers, Create(t, f)
  PROVE  Inv'
<1>1. f \notin listed /\ at[f] = "unmapped" /\ ~Called(f) /\ f \notin condemned /\ f \in Stacks
  BY Uncalled, Names DEF Create, Inv, Kept
<1>2. frames[f] = 0
  BY <1>1 DEF Inv, Tops
<1>3. frames' = [frames EXCEPT ![f] = 0] /\ ehContext' = ehContext
  BY <1>1, <1>2 DEF Create, Inv, TypeOK, Exceptions
<1>4. /\ at' = [at EXCEPT ![f] = "new"] /\ tstack' = [tstack EXCEPT ![f] = Bottom(f)]
      /\ state' = [state EXCEPT ![f] = IF "new" = "new" THEN "HOLD" ELSE "TERM"]
      /\ UNCHANGED <<sp, callee, locals, within, threadVars, stopper, halted>>
      /\ condemned' = condemned /\ listed' = listed \cup {f} /\ held' = held \cup {f}
  BY DEF Create, Goto, worldVars
<1>5. held \subseteq listed /\ listed \cup held \cup condemned \subseteq Fibers
  BY DEF Inv, TypeOK, Kept
<1> QED
  BY <1>1, <1>3, <1>4, <1>5, InvSetAside

\* reset: a fiber that has ended is new again.
LEMMA InvReset ==
  ASSUME Inv, NEW t \in Carriers, NEW f \in Fibers, Reset(t, f)
  PROVE  Inv'
<1>1. f \in held /\ f \in listed /\ f \notin condemned /\ ~Called(f) /\ f \in Stacks /\ at[f] # "unmapped"
  BY Names DEF Reset, Inv, Kept
<1>2. at[f] \in {"unmapped", "new", "ended", "out away"}
  <2>1. at[f] \in FiberPlaces /\ at[f] \notin Active \cup {"in away"}
    BY <1>1 DEF Inv, TypeOK, Calls
  <2> QED
    BY <2>1 DEF FiberPlaces
<1>4. /\ at' = [at EXCEPT ![f] = "new"] /\ tstack' = [tstack EXCEPT ![f] = Bottom(f)]
      /\ state' = [state EXCEPT ![f] = IF "new" = "new" THEN "HOLD" ELSE "TERM"]
      /\ frames' = [frames EXCEPT ![f] = 0]
      /\ UNCHANGED <<sp, callee, locals, within, threadVars, stopper, halted>>
      /\ UNCHANGED <<ehContext, condemned, listed, held>>
  BY DEF Reset, Goto, worldVars
<1>5. held \subseteq listed /\ listed \cup held \cup condemned \subseteq Fibers
  BY DEF Inv, TypeOK, Kept
<1> QED
  BY <1>1, <1>2, <1>4, <1>5, InvSetAside

\* The destructor: the stack and the context go.
LEMMA InvFreeStack ==
  ASSUME Inv, NEW f \in Fibers, FreeStack(f)
  PROVE  Inv'
<1>1. f \in listed /\ f \notin held /\ ~Called(f) /\ at[f] \in {"new", "ended"}
  BY DEF FreeStack, Inv, Kept
<1>4. /\ at' = [at EXCEPT ![f] = "unmapped"] /\ tstack' = [tstack EXCEPT ![f] = Bottom(f)]
      /\ state' = [state EXCEPT ![f] = IF "unmapped" = "new" THEN "HOLD" ELSE "TERM"]
      /\ frames' = [frames EXCEPT ![f] = 0]
      /\ UNCHANGED <<sp, callee, locals, within, threadVars, stopper, halted>>
      /\ UNCHANGED <<ehContext, held>> /\ condemned' = condemned \ {f} /\ listed' = listed \ {f}
  BY DEF FreeStack, Goto
<1>5. held \subseteq listed /\ listed \cup held \cup condemned \subseteq Fibers
  BY DEF Inv, TypeOK, Kept
<1> QED
  BY <1>1, <1>4, <1>5, InvSetAside

\* The program gives up its reference to a fiber.
LEMMA InvDrop ==
  ASSUME Inv, held' \subseteq held, UNCHANGED <<codeVars, contextVars, threadVars, worldVars, state>>
  PROVE  Inv'
<1>1. /\ UNCHANGED <<sp, frames, at, callee, locals, tstack, within, ehContext, listed>>
      /\ UNCHANGED <<curr, switching, smThis, ehSlot, stopper, halted, condemned, state>>
  BY DEF codeVars, contextVars, threadVars, worldVars
<1>2. \A t : On(t)' = On(t)
  BY <1>1 DEF On
<1>3. \A f : Called(f)' <=> Called(f)
  BY <1>1 DEF Called
<1>4. TypeOK' /\ Placed' /\ Carried' /\ Exceptions'
  BY <1>1, <1>2 DEF Inv, TypeOK, Placed, Carried, Exceptions
<1>5. Calls' /\ States'
  BY <1>1, <1>3 DEF Inv, Calls, States
<1>8. Tops'
  BY <1>1, <1>2, <1>3 DEF Inv, Tops
<1>6. LocalsFit'
  BY <1>1, <1>2 DEF Inv, LocalsFit
<1>7. Kept'
  BY <1>1, <1>2, <1>3 DEF Inv, Kept
<1> QED
  BY <1>4, <1>5, <1>6, <1>7, <1>8 DEF Inv

\* What the thread that stops or goes on does to the top of its stack.
LEMMA InvWorld ==
  ASSUME Inv, NEW t \in Carriers, NEW top \in Addresses, top.stack = On(t),
         UNCHANGED <<codeVars, within, ehContext, listed, threadVars, state, held>>,
         tstack' = IF t \in switching THEN tstack ELSE [tstack EXCEPT ![curr[t]] = top],
         halted' \subseteq Carriers, stopper' \in Carriers \cup {NoFiber}, condemned' \subseteq Fibers,
         \A u \in Carriers \cap (halted' \cup {stopper'}) : u = t => top = sp[t],
         \A u \in Carriers \cap (halted' \cup {stopper'}) : u # t => u \in halted \cup {stopper},
         Kept'
  PROVE  Inv'
<1>a. PICK s : s = On(t)
  OBVIOUS
<1>1. /\ UNCHANGED <<sp, frames, at, callee, locals, within, ehContext, listed>>
      /\ UNCHANGED <<curr, switching, smThis, ehSlot, state, held>>
  BY DEF codeVars, threadVars
<1>2. /\ s \in Stacks /\ top.stack = s
      /\ \A u \in Carriers : On(u)' = On(u) /\ On(u) \in Stacks /\ (u # t => On(u) # s)
  BY <1>a, <1>1, Here DEF On
<1>3. /\ tstack' \in [Stacks -> Addresses]
      /\ \A r \in Stacks : r # s => tstack'[r] = tstack[r]
      /\ tstack'[s] = IF t \in switching THEN tstack[s] ELSE top
  <2>1. t \notin switching => curr[t] = s
    BY <1>a, OwnContext
  <2> QED
    BY <1>2, <2>1 DEF Inv, TypeOK
<1>c. \A r \in Stacks : Called(r)' <=> Called(r)
  BY <1>1 DEF Called
<1>4. TypeOK'
  BY <1>1, <1>3 DEF Inv, TypeOK
<1>o. \A u : On(u)' = On(u)
  BY <1>1 DEF On
<1>5. Placed' /\ Carried' /\ Exceptions'
  BY <1>1, <1>o DEF Inv, Placed, Carried, Exceptions
<1>6. Calls' /\ States'
  <2>1. Calls /\ States /\ UNCHANGED <<callee, at, within, state>>
    BY <1>1 DEF Inv
  <2>2. Calls'
    BY ONLY <2>1, <1>c, Names DEF Calls
  <2> QED
    BY ONLY <2>1, <2>2 DEF States
<1>7. LocalsFit'
  BY <1>1, <1>o DEF Inv, LocalsFit
<1>8. Tops'
  <2>0. Tops
    BY DEF Inv
  <2>1. at[s] \in Active /\ (t \in switching <=> at[s] \in Locking)
    BY <1>a, Here, There
  <2>2. ASSUME NEW r \in Stacks
        PROVE
       /\ tstack'[r].stack = r
       /\ at'[r] \in {"in away", "out away", "new", "in back", "in popped", "out back", "entry"} =>
            tstack'[r] = Address(r, frames'[r])
       /\ at'[r] = "unmapped" \/ (at'[r] = "ended" /\ ~Called(r)') => tstack'[r] = Bottom(r)
    <3>1. CASE r # s
      BY <1>1, <1>3, <1>c, <2>0, <3>1 DEF Tops
    <3>2. CASE r = s /\ t \in switching
      BY <1>1, <1>3, <1>c, <2>0, <3>2 DEF Tops
    <3>3. CASE r = s /\ t \notin switching
      <4>1. tstack'[s].stack = s
        BY <1>2, <1>3, <3>3
      <4>2. at[s] \notin {"in away", "out away", "new", "in back", "in popped", "out back", "entry",
                          "unmapped", "ended"}
        BY <2>1, <3>3 DEF Active, Calling, Before, After, Leaving, Returning, Locking
      <4> QED
        BY <1>1, <3>3, <4>1, <4>2
    <3> QED
      BY <3>1, <3>2, <3>3
  <2>3. \A r \in Stacks : at'[r] \in {"unmapped", "new", "ended", "entry", "entered"} <=> frames'[r] = 0
    BY <1>1, <2>0 DEF Tops
  <2>4. ASSUME NEW u \in halted' \cup {stopper'}, u \in Carriers \ switching'
        PROVE  tstack'[On(u)'] = sp'[u]
    <3>1. CASE u = t
      BY <1>1, <1>2, <1>3, <1>a, <2>4, <3>1
    <3>2. CASE u # t
      <4>1. u \in halted \cup {stopper} /\ u \in Carriers \ switching
        BY <1>1, <2>4, <3>2
      <4>2. tstack[On(u)] = sp[u]
        BY <2>0, <4>1 DEF Tops
      <4> QED
        BY <1>1, <1>2, <1>3, <3>2, <4>1, <4>2
    <3> QED
      BY <3>1, <3>2
  <2> QED
    BY <2>2, <2>3, <2>4 DEF Tops
<1> QED
  BY <1>4, <1>5, <1>6, <1>7, <1>8 DEF Inv

\* The thread that collects stores its own stack top.
LEMMA InvStopWorld ==
  ASSUME Inv, NEW t \in Carriers, StopWorld(t)
  PROVE  Inv'
<1>1. Kept'
  <2>1. /\ UNCHANGED <<sp, at, callee, listed, held, halted, condemned>>
        /\ stopper' = t /\ halted = {} /\ at[On(t)] = "run"
    BY DEF StopWorld, At, codeVars
  <2>2. On(t)' = On(t) /\ \A f : Called(f)' <=> Called(f)
    BY <2>1 DEF On, Called
  <2> QED
    BY <2>1, <2>2 DEF Inv, Kept
<1>2. sp[t] \in Addresses /\ sp[t].stack = On(t)
  BY Here DEF On
<1>3. tstack' = IF t \in switching THEN tstack ELSE [tstack EXCEPT ![curr[t]] = sp[t]]
  BY DEF StopWorld
<1>h. /\ halted' \subseteq Carriers /\ stopper' \in Carriers \cup {NoFiber} /\ condemned' \subseteq Fibers
      /\ \A u \in Carriers \cap (halted' \cup {stopper'}) : u = t => sp[t] = sp[t]
      /\ \A u \in Carriers \cap (halted' \cup {stopper'}) : u # t => u \in halted \cup {stopper}
  BY Names DEF StopWorld, Inv, TypeOK
<1>u. UNCHANGED <<codeVars, within, ehContext, listed, threadVars, state, held>>
  BY DEF StopWorld
<1> QED
  BY <1>1, <1>2, <1>3, <1>h, <1>u, InvWorld

\* thread_preSuspend.
LEMMA InvPreSuspend ==
  ASSUME Inv, NEW t \in Carriers, PreSuspend(t)
  PROVE  Inv'
<1>1. Kept'
  <2>1. /\ UNCHANGED <<sp, at, callee, listed, held, stopper, condemned>>
        /\ stopper # t /\ halted' = halted \cup {t}
    BY DEF PreSuspend, codeVars
  <2>2. (\A u : On(u)' = On(u)) /\ \A f : Called(f)' <=> Called(f)
    BY <2>1 DEF On, Called
  <2> QED
    BY <2>1, <2>2 DEF Inv, Kept
<1>2. sp[t] \in Addresses /\ sp[t].stack = On(t)
  BY Here DEF On
<1>3. tstack' = IF t \in switching THEN tstack ELSE [tstack EXCEPT ![curr[t]] = sp[t]]
  BY DEF PreSuspend
<1>h. /\ halted' \subseteq Carriers /\ stopper' \in Carriers \cup {NoFiber} /\ condemned' \subseteq Fibers
      /\ \A u \in Carriers \cap (halted' \cup {stopper'}) : u = t => sp[t] = sp[t]
      /\ \A u \in Carriers \cap (halted' \cup {stopper'}) : u # t => u \in halted \cup {stopper}
  BY DEF PreSuspend, Inv, TypeOK
<1>u. UNCHANGED <<codeVars, within, ehContext, listed, threadVars, state, held>>
  BY DEF PreSuspend
<1> QED
  BY <1>1, <1>2, <1>3, <1>h, <1>u, InvWorld

\* thread_postSuspend.
LEMMA InvPostSuspend ==
  ASSUME Inv, NEW t \in Carriers, PostSuspend(t)
  PROVE  Inv'
<1>1. Kept'
  <2>1. /\ UNCHANGED <<sp, at, callee, listed, held, stopper, condemned>>
        /\ stopper = NoFiber
    BY DEF PostSuspend, codeVars
  <2>2. \A f : Called(f)' <=> Called(f)
    BY <2>1 DEF Called
  <2> QED
    BY <2>1, <2>2 DEF Inv, Kept
<1>2. PICK top : top = Bottom(On(t))
  OBVIOUS
<1>3. top \in Addresses /\ top.stack = On(t)
  BY <1>2, Here DEF Bottom, Address, Addresses
<1>4. tstack' = IF t \in switching THEN tstack ELSE [tstack EXCEPT ![curr[t]] = top]
  <2>1. t \notin switching => curr[t] = On(t)
    BY OwnContext
  <2> QED
    BY <1>2, <2>1 DEF PostSuspend
<1>h. /\ halted' \subseteq Carriers /\ stopper' \in Carriers \cup {NoFiber} /\ condemned' \subseteq Fibers
      /\ \A u \in Carriers \cap (halted' \cup {stopper'}) : u = t => top = sp[t]
      /\ \A u \in Carriers \cap (halted' \cup {stopper'}) : u # t => u \in halted \cup {stopper}
  BY Names DEF PostSuspend, Inv, TypeOK
<1>u. UNCHANGED <<codeVars, within, ehContext, listed, threadVars, state, held>>
  BY DEF PostSuspend
<1> QED
  BY <1>1, <1>3, <1>4, <1>h, <1>u, InvWorld

\* When the world is stopped, the collector finds a fiber if and only if it
\* is referred to, is being called, or has frames.
LEMMA FoundExactly ==
  ASSUME Inv, WorldStopped, NEW f \in Fibers
  PROVE  Found(f) <=> f \in held \/ Called(f) \/ frames[f] > 0
<1>0. f \in Stacks /\ f # NoFiber
  BY Names
<1>1. ASSUME NEW t \in Carriers, smThis[t] = f
      PROVE  Called(f)
  <2>1. PICK s : s = On(t)
    OBVIOUS
  <2>2. s \in Stacks /\ at[s] \in Active
    BY <2>1, Here
  <2>3. smThis[t] = IF at[s] \in Calling THEN callee[s] ELSE Self(s)
    BY <2>1 DEF Inv, Carried
  <2>4. CASE at[s] \in Calling
    BY <1>1, <2>2, <2>3, <2>4 DEF Called
  <2>5. CASE at[s] \notin Calling
    <3>1. s = f
      BY <1>0, <1>1, <2>3, <2>5 DEF Self
    <3> QED
      BY <2>2, <3>1 DEF Inv, Calls
  <2> QED
    BY <2>4, <2>5
<1>2. ASSUME Scanned(f, 1)
      PROVE  Called(f) \/ frames[f] > 0
  <2>1. SUFFICES ASSUME ~Called(f), ~(frames[f] > 0)
                 PROVE  FALSE
    OBVIOUS
  <2>2. frames[f] = 0 /\ at[f] \in {"unmapped", "new", "ended"}
    <3>1. frames[f] \in Nat
      BY <1>0 DEF Inv, TypeOK
    <3>2. frames[f] = 0
      BY <2>1, <3>1
    <3>3. at[f] \in {"unmapped", "new", "ended", "entry", "entered"}
      BY <1>0, <3>2 DEF Inv, Tops
    <3> QED
      BY <2>1, <3>2, <3>3 DEF Inv, Calls, Active
  <2>3. tstack[f] = Address(f, 0)
    BY <1>0, <2>1, <2>2 DEF Inv, Tops, Bottom
  <2>4. tstack[f].frames = 0
    BY <2>3 DEF Address
  <2> QED
    BY <1>2, <2>4 DEF Scanned
<1>3. ASSUME NEW s \in Stacks, callee[s] = f
      PROVE  (\E t \in Carriers : smThis[t] = f) \/ Scanned(s, frames[s])
  <2>1. at[s] \in Calling \cup {"in away"}
    BY <1>0, <1>3 DEF Inv, Calls
  <2>2. CASE at[s] \in Calling
    <3>1. PICK t \in Carriers : On(t) = s
      BY <2>2 DEF Inv, Placed, Active
    <3> QED
      BY <1>3, <2>2, <3>1, There
  <2>3. CASE at[s] = "in away"
    <3>1. tstack[s] = Address(s, frames[s]) /\ frames[s] \in Nat
      BY <2>3 DEF Inv, Tops, TypeOK
    <3> QED
      BY <3>1 DEF Scanned, Address
  <2> QED
    BY <2>1, <2>2, <2>3
<1>4. ASSUME frames[f] > 0
      PROVE  Called(f) \/ Scanned(f, 1)
  <2>1. at[f] \in Active \cup {"in away", "out away"}
    <3>1. frames[f] # 0
      BY <1>4
    <3>2. at[f] \notin {"unmapped", "new", "ended"} /\ at[f] \in FiberPlaces
      BY <1>0, <3>1 DEF Inv, Tops, TypeOK
    <3> QED
      BY <3>2 DEF FiberPlaces
  <2>2. CASE at[f] = "out away"
    <3>1. tstack[f] = Address(f, frames[f]) /\ frames[f] \in Nat
      BY <1>0, <2>2 DEF Inv, Tops, TypeOK
    <3> QED
      BY <1>4, <3>1 DEF Scanned, Address
  <2>3. CASE at[f] \in Active \cup {"in away"}
    BY <2>3 DEF Inv, Calls
  <2> QED
    BY <2>1, <2>2, <2>3
<1> QED
  BY <1>1, <1>2, <1>3, <1>4 DEF Found, Called

\* The scan: the fibers it does not find will be finalized.
LEMMA InvCollectWorld ==
  ASSUME Inv, NEW t \in Carriers, CollectWorld(t)
  PROVE  Inv'
<1>1. Kept'
  <2>1. /\ UNCHANGED <<sp, at, callee, listed, held, halted>>
        /\ stopper' = NoFiber /\ condemned' = {f \in listed : ~Found(f)} /\ WorldStopped
    BY DEF CollectWorld, codeVars
  <2>2. \A f : Called(f)' <=> Called(f)
    BY <2>1 DEF Called
  <2>3. ASSUME NEW f \in condemned'
        PROVE  f \notin held /\ ~Called(f) /\ at[f] \in {"new", "ended"}
    <3>1. f \in listed /\ f \in Fibers /\ f \in Stacks /\ ~Found(f)
      BY <2>1, <2>3, Facts
    <3>2. f \notin held /\ ~Called(f) /\ ~(frames[f] > 0)
      BY <2>1, <3>1, FoundExactly
    <3>3. frames[f] \in Nat
      BY <3>1 DEF Inv, TypeOK
    <3>4. frames[f] = 0
      BY <3>2, <3>3
    <3>6. at[f] \in {"unmapped", "new", "ended", "entry", "entered"}
      BY <3>1, <3>4 DEF Inv, Tops
    <3>5. at[f] # "unmapped" /\ at[f] \notin Active
      BY <3>1, <3>2 DEF Inv, Kept, Calls
    <3> QED
      BY <3>2, <3>5, <3>6 DEF Active
  <2> QED
    BY <2>1, <2>2, <2>3 DEF Inv, Kept
<1>2. PICK top : top = Bottom(On(t))
  OBVIOUS
<1>3. top \in Addresses /\ top.stack = On(t)
  BY <1>2, Here DEF Bottom, Address, Addresses
<1>4. tstack' = IF t \in switching THEN tstack ELSE [tstack EXCEPT ![curr[t]] = top]
  <2>1. t \notin switching => curr[t] = On(t)
    BY OwnContext
  <2> QED
    BY <1>2, <2>1 DEF CollectWorld
<1>h. /\ halted' \subseteq Carriers /\ stopper' \in Carriers \cup {NoFiber} /\ condemned' \subseteq Fibers
      /\ \A u \in Carriers \cap (halted' \cup {stopper'}) : u = t => top = sp[t]
      /\ \A u \in Carriers \cap (halted' \cup {stopper'}) : u # t => u \in halted \cup {stopper}
  BY Facts, Names DEF CollectWorld, WorldStopped, Inv, TypeOK
<1>u. UNCHANGED <<codeVars, within, ehContext, listed, threadVars, state, held>>
  BY DEF CollectWorld
<1> QED
  BY <1>1, <1>3, <1>4, <1>h, <1>u, InvWorld

\* call: switchIn stores the stack top.
LEMMA InvCallBegin ==
  ASSUME Inv, NEW t \in Carriers, NEW f \in Fibers, CallBegin(t, f)
  PROVE  Inv'
<1>a. PICK s : s = On(t)
  OBVIOUS
<1>d. /\ s \in Stacks /\ at[s] = "run" /\ t \notin halted /\ stopper # t
      /\ \A u \in Carriers : On(u) \in Stacks /\ (u # t => On(u) # s)
  BY <1>a, Here DEF CallBegin, At
<1>m. /\ at[s] \in Active
      /\ at[s] \notin Before
      /\ at[s] \notin After
      /\ at[s] \notin Leaving
      /\ at[s] \notin Returning
      /\ at[s] \notin Locking
      /\ at[s] \notin Calling
  BY <1>d DEF Before, After, Calling, Leaving, Returning, Active, Locking
<1>f1. f \in held /\ f \in listed /\ f \in Stacks /\ f # NoFiber /\ f \notin condemned /\ at[f] # "unmapped"
  BY Names DEF CallBegin, Inv, Kept
<1>f2. ~Called(f) /\ state[f] = "HOLD"
  BY DEF CallBegin
<1>f3. at[f] \in {"new", "out away"} /\ f # s
  BY <1>d, <1>f1, <1>f2, Names DEF Inv, TypeOK, Calls, States, FiberPlaces, Active
<1>f4. tstack[f] = Address(f, frames[f])
  BY <1>f1, <1>f3 DEF Inv, Tops
<1>f5. curr[t] = s
  BY <1>a, <1>d, <1>m, There DEF Self
<1>f6. smThis[t] = Self(s)
  BY <1>a, <1>d, <1>m, There
<1>f7. callee[s] = NoFiber
  BY <1>d, <1>m DEF Inv, Calls
<1>f8. PICK new : new = [cur |-> Self(s), tobj |-> t, oldp |-> s, newp |-> Address(f, frames[f])]
  OBVIOUS
<1>f9. new \in Locals /\ sp[t] = Address(s, frames[s])
  BY <1>a, <1>d, <1>f1, <1>f8, Here, Names DEF Inv, TypeOK, Locals, Address, Addresses, Self
<1>f10. new.cur = Self(s) /\ new.tobj = t /\ new.oldp = s /\ new.newp = Address(f, frames[f])
  BY <1>f8
<1>e. /\ at' = [at EXCEPT ![s] = "in saved"]
      /\ locals' = [locals EXCEPT ![s] = new]
      /\ callee' = [callee EXCEPT ![s] = f]
      /\ smThis' = [smThis EXCEPT ![t] = f]
      /\ tstack' = [tstack EXCEPT ![s] = Address(s, frames[s])]
  BY <1>a, <1>f4, <1>f5, <1>f6, <1>f8, <1>f9 DEF CallBegin, At, Goto, worldVars
<1>1. /\ s \in Stacks /\ at[s] = "run"
      /\ t \notin halted /\ stopper # t
      /\ UNCHANGED <<sp, frames, within, ehContext, listed, state, held>>
      /\ UNCHANGED <<curr, switching, ehSlot, stopper, halted, condemned>>
  BY <1>d DEF CallBegin, At, Goto, worldVars
<1>2. /\ at'[s] = "in saved" /\ \A r \in Stacks : r # s => at'[r] = at[r]
      /\ \A u \in Carriers : On(u)' = On(u) /\ On(u) \in Stacks /\ (u # t => On(u) # s)
  BY <1>1, <1>e, <1>d DEF Inv, TypeOK, On
<1>locals. locals'[s] = new /\ \A r \in Stacks : r # s => locals'[r] = locals[r]
  BY <1>d, <1>e DEF Inv, TypeOK, Locals
<1>callee. callee'[s] = f /\ \A r \in Stacks : r # s => callee'[r] = callee[r]
  BY <1>d, <1>e DEF Inv, TypeOK
<1>smThis. smThis'[t] = f /\ \A r \in Carriers : r # t => smThis'[r] = smThis[r]
  BY <1>e DEF Inv, TypeOK
<1>tstack. tstack'[s] = Address(s, frames[s]) /\ \A r \in Stacks : r # s => tstack'[r] = tstack[r]
  BY <1>d, <1>e DEF Inv, TypeOK
<1>c. \A r \in Stacks : Called(r)' <=> Called(r) \/ r = f
  BY <1>d, <1>callee, <1>f1, <1>f7, Names DEF Called
<1>p. \A r \in Stacks :
        /\ at'[r] \in Active <=> at[r] \in Active
        /\ at'[r] \in Before <=> at[r] \in Before \/ r = s
        /\ at'[r] \in After <=> at[r] \in After
        /\ at'[r] \in Leaving <=> at[r] \in Leaving
        /\ at'[r] \in Returning <=> at[r] \in Returning
        /\ at'[r] \in Locking <=> at[r] \in Locking
        /\ at'[r] = "run" <=> at[r] = "run" /\ r # s
        /\ at'[r] = "entry" <=> at[r] = "entry"
        /\ at'[r] = "entered" <=> at[r] = "entered"
        /\ at'[r] = "in pushed" <=> at[r] = "in pushed"
        /\ at'[r] = "in back" <=> at[r] = "in back"
        /\ at'[r] = "in popped" <=> at[r] = "in popped"
        /\ at'[r] = "out back" <=> at[r] = "out back"
        /\ at'[r] = "out unlocked" <=> at[r] = "out unlocked"
        /\ at'[r] = "in away" <=> at[r] = "in away"
        /\ at'[r] = "out away" <=> at[r] = "out away"
        /\ at'[r] = "unmapped" <=> at[r] = "unmapped"
        /\ at'[r] = "new" <=> at[r] = "new"
        /\ at'[r] = "ended" <=> at[r] = "ended"
  BY <1>1, <1>2 DEF Before, After, Calling, Leaving, Returning, Active, Locking
<1>3. TypeOK'
  <2>1. at' \in [Stacks -> FiberPlaces]
    BY <1>e DEF Inv, TypeOK, FiberPlaces, Before, After, Calling, Leaving, Returning, Active
  <2>2. locals' \in [Stacks -> Locals \cup {NoFiber}]
    BY <1>e, <1>f9 DEF Inv, TypeOK
  <2>3. callee' \in [Stacks -> Fibers \cup {NoFiber}]
    BY <1>e DEF Inv, TypeOK
  <2>4. smThis' \in [Carriers -> Fibers \cup {NoFiber}]
    BY <1>e DEF Inv, TypeOK
  <2>5. tstack' \in [Stacks -> Addresses]
    BY <1>e DEF Inv, TypeOK, Addresses, Address, Bottom
  <2> QED
    BY <1>1, <2>1, <2>2, <2>3, <2>4, <2>5 DEF Inv, TypeOK
<1>4. Placed'
  <2>1. \A u \in Carriers : sp'[u] = Address(On(u), frames'[On(u)])
    <3> QED
      BY <1>1, <1>2 DEF Inv, Placed
  <2>2. \A u \in Carriers : at'[u] = at[u] \/ at'[u] \in {"run"} \cup Calling
    BY <1>2, Names DEF Inv, Placed, Before, After, Calling, Leaving, Returning, Active, Locking
  <2>3. \A r \in Stacks : at'[r] \in Active <=> at[r] \in Active
    BY <1>1, <1>p
  <2> QED
    BY <1>2, <2>1, <2>2, <2>3, PlacedSteady
<1>5. Carried'
  <2>0. Carried
    BY DEF Inv
  <2>1. ASSUME NEW u \in Carriers
        PROVE
          /\ curr'[u] = IF at'[On(u)'] \in {"in pushed", "in back"} THEN callee'[On(u)'] ELSE On(u)'
          /\ u \in switching' <=> at'[On(u)'] \in Locking
          /\ smThis'[u] = IF at'[On(u)'] \in Calling THEN callee'[On(u)'] ELSE Self(On(u)')
    <3>1. On(u)' = On(u) /\ On(u) \in Stacks
      BY <1>2
    <3>2. curr'[u] = IF at'[On(u)] \in {"in pushed", "in back"} THEN callee'[On(u)] ELSE On(u)
      BY <1>1, <1>p, <1>callee, <2>0, <3>1 DEF Carried
    <3>3. u \in switching' <=> at'[On(u)] \in Locking
      BY <1>1, <1>p, <2>0, <3>1 DEF Carried
    <3>4. smThis'[u] = IF at'[On(u)] \in Calling THEN callee'[On(u)] ELSE Self(On(u))
      <4>1. CASE u = t
        BY <1>a, <1>2, <1>smThis, <1>callee, <3>1, <4>1 DEF Calling, Before
      <4>2. CASE u # t
        BY <1>2, <1>smThis, <1>callee, <2>0, <4>2 DEF Carried, Calling
      <4> QED
        BY <4>1, <4>2
    <3> QED
      BY <3>1, <3>2, <3>3, <3>4
  <2> QED
    BY <2>1 DEF Carried
<1>6. Exceptions'
  BY <1>1, <1>2 DEF Inv, Exceptions
<1>7. Calls'
  <2>0. Calls
    BY DEF Inv
  <2>1. \A r \in Stacks : callee'[r] # NoFiber <=> at'[r] \in Calling \cup {"in away"}
    BY <1>2, <1>callee, <1>f1, <2>0 DEF Calls, Calling, Before
  <2>2. ASSUME NEW r \in Stacks, NEW x \in Stacks, callee'[x] # NoFiber, callee'[x] = callee'[r]
        PROVE  x = r
    <3>1. callee[x] # f /\ callee[r] # f
      BY <1>f2 DEF Called
    <3> QED
      BY <1>callee, <2>0, <2>2, <3>1 DEF Calls
  <2>3. ASSUME NEW r \in Stacks
        PROVE  /\ at'[r] \in Before => at'[callee'[r]] \in {"new", "out away"}
               /\ at'[r] \in After => at'[callee'[r]] \in {"ended", "out away"}
               /\ at'[r] = "in away" => at'[callee'[r]] \in Active \cup {"in away"}
               /\ at'[r] \in {"in pushed", "in away", "in back"} => within'[callee'[r]] = r
    <3>1. CASE r = s
      <4>1. callee'[r] = f /\ at'[f] = at[f] /\ at'[r] = "in saved"
        BY <1>2, <1>callee, <1>f1, <1>f3, <3>1
      <4> QED
        BY <1>f3, <4>1 DEF After
    <3>2. CASE r # s
      <4>1. callee'[r] = callee[r] /\ at'[r] = at[r] /\ within' = within
        BY <1>1, <1>2, <1>callee, <3>2
      <4>2. CASE at[r] \in Calling \cup {"in away"}
        <5>1. callee[r] \in Stacks
          BY <4>2, Facts
        <5>2. /\ at[r] \in Before => at[callee[r]] \in {"new", "out away"}
              /\ at[r] \in After => at[callee[r]] \in {"ended", "out away"}
              /\ at[r] = "in away" => at[callee[r]] \in Active \cup {"in away"}
              /\ at[r] \in {"in pushed", "in away", "in back"} => within[callee[r]] = r
          BY <2>0 DEF Calls
        <5> QED
          BY <1>p, <4>1, <5>1, <5>2
      <4>3. CASE at[r] \notin Calling \cup {"in away"}
        BY <4>1, <4>3 DEF Calling, Before, After
      <4> QED
        BY <4>2, <4>3
    <3> QED
      BY <3>1, <3>2
  <2>4. ASSUME NEW x \in Fibers, at'[x] \in Active \cup {"in away"}
        PROVE  \E r \in Stacks : callee'[r] = x
    <3>1. x \in Stacks /\ x # NoFiber /\ at[x] \in Active \cup {"in away"}
      BY <1>p, <2>4, Names
    <3>2. PICK r \in Stacks : callee[r] = x
      BY <2>0, <3>1 DEF Calls, Called
    <3> QED
      BY <1>callee, <1>f7, <3>1, <3>2
  <2> QED
    BY <2>1, <2>2, <2>3, <2>4 DEF Calls, Called
<1>8. LocalsFit'
  <2>0. LocalsFit
    BY DEF Inv
  <2>1. ASSUME NEW r \in Stacks, at'[r] \in Calling \cup Leaving \cup Returning \cup {"in away", "out away"}
        PROVE  locals'[r] \in Locals /\ locals'[r].cur = Self(r) /\ locals'[r].oldp = r
    BY <1>2, <1>locals, <1>f9, <1>f10, <2>0, <2>1 DEF LocalsFit
  <2>2. ASSUME NEW u \in Carriers, at'[On(u)'] \in Calling \cup Leaving \cup {"out unlocked"}
        PROVE  locals'[On(u)'].tobj = u
    <3>1. CASE u # t
      <4>1. On(u)' = On(u) /\ On(u) \in Stacks /\ On(u) # s
        BY <1>2, <3>1
      <4>2. at'[On(u)] = at[On(u)] /\ locals'[On(u)] = locals[On(u)]
        BY <1>2, <1>locals, <4>1
      <4>3. at[On(u)] \in Calling \cup Leaving \cup {"out unlocked"} => locals[On(u)].tobj = u
        BY <2>0 DEF LocalsFit
      <4> QED
        BY <2>2, <4>1, <4>2, <4>3
    <3>2. CASE u = t
      BY <1>a, <1>2, <1>locals, <1>f10, <3>2
    <3> QED
      BY <3>1, <3>2
  <2>3. ASSUME NEW r \in Stacks, at'[r] \in Calling \cup {"in away"}, at'[callee'[r]] \in Leaving
        PROVE  locals'[callee'[r]].newp = Address(r, frames'[r])
    <3>1. r # s
      BY <1>2, <1>callee, <1>f1, <1>f3, <2>3 DEF Leaving
    <3>2. callee'[r] = callee[r] /\ at[r] \in Calling \cup {"in away"} /\ callee[r] \in Stacks
      BY <1>2, <1>callee, <2>3, <3>1, Facts DEF Calling
    <3>3. at[callee[r]] \in Leaving /\ callee[r] # s
      BY <1>p, <1>2, <2>3, <3>2 DEF Leaving
    <3>4. locals[callee[r]].newp = Address(r, frames[r])
      BY <2>0, <3>2, <3>3 DEF LocalsFit
    <3>5. locals'[callee[r]] = locals[callee[r]] /\ frames'[r] = frames[r]
      BY <1>1, <1>locals, <3>2, <3>3
    <3> QED
      BY <3>2, <3>4, <3>5
  <2>4. ASSUME NEW r \in Stacks, at'[r] \in Before
        PROVE  locals'[r].newp = Address(callee'[r], frames'[callee'[r]])
    BY <1>1, <1>2, <1>locals, <1>callee, <1>f10, <2>0, <2>4 DEF LocalsFit
  <2>5. ASSUME NEW r \in Stacks, at'[r] = "in away"
        PROVE  /\ \A u \in Carriers : On(u)' = callee'[r] => locals'[r].tobj = u
               /\ at'[callee'[r]] = "in away" => locals'[callee'[r]].tobj = locals'[r].tobj
    <3>1. r # s /\ at[r] = "in away" /\ callee'[r] = callee[r] /\ locals'[r] = locals[r]
      BY <1>2, <1>callee, <1>locals, <2>5
    <3>2. callee[r] \in Stacks
      BY <3>1, Facts
    <3>3. at'[callee[r]] = "in away" => at[callee[r]] = "in away" /\ locals'[callee[r]] = locals[callee[r]]
      BY <1>2, <1>locals, <3>2
    <3>4. \A u \in Carriers : On(u)' = callee'[r] => locals'[r].tobj = u
      <4>1. \A u \in Carriers : On(u) = callee[r] => locals[r].tobj = u
        BY <2>0, <3>1 DEF LocalsFit
      <4>2. \A u \in Carriers : On(u)' = On(u)
        BY <1>2
      <4> QED
        BY ONLY <3>1, <4>1, <4>2
    <3>5. at[callee[r]] = "in away" => locals[callee[r]].tobj = locals[r].tobj
      BY <2>0, <3>1 DEF LocalsFit
    <3>6. at'[callee'[r]] = "in away" => locals'[callee'[r]].tobj = locals'[r].tobj
      BY ONLY <3>1, <3>3, <3>5
    <3> QED
      BY <3>4, <3>6
  <2> QED
    BY <2>1, <2>2, <2>3, <2>4, <2>5 DEF LocalsFit
<1>9. States'
  <2>0. States
    BY DEF Inv
  <2>1. ASSUME NEW g \in Fibers
        PROVE
    /\ at'[g] \in {"run", "in away"} \cup Calling => state'[g] = "EXEC"
    /\ at'[g] \in {"new", "entry", "entered", "out away"} \cup Returning => state'[g] = "HOLD"
    /\ at'[g] \in Leaving => state'[g] \in {"HOLD", "TERM"}
    /\ at'[g] \in {"ended", "unmapped"} => state'[g] = "TERM"
    <3>1. g \in Stacks
      BY Names
    <3>2. CASE g # s
      BY <1>1, <1>2, <2>0, <3>1, <3>2 DEF States
    <3>3. CASE g = s
      BY <1>1, <1>2, <2>0, <3>3 DEF States, Before, After, Calling, Leaving, Returning, Active, Locking
    <3> QED
      BY <3>2, <3>3
  <2> QED
    BY <2>1 DEF States
<1>10. Tops'
  <2>0. Tops
    BY DEF Inv
  <2>1. ASSUME NEW r \in Stacks
        PROVE
       /\ tstack'[r].stack = r
       /\ at'[r] \in {"in away", "out away", "new", "in back", "in popped", "out back", "entry"} =>
            tstack'[r] = Address(r, frames'[r])
    <3>1. CASE r # s
      BY <1>1, <1>2, <1>tstack, <2>0, <3>1 DEF Tops
    <3>2. CASE r = s
      <4>1. tstack'[s].stack = s
        BY <1>tstack DEF Address, Bottom
      <4>2. at'[s] \notin {"in away", "out away", "new", "in back", "in popped", "out back", "entry"}
        BY <1>2
      <4> QED
        BY <3>2, <4>1, <4>2
    <3> QED
      BY <3>1, <3>2
  <2>2. ASSUME NEW r \in Stacks
        PROVE  at'[r] \in {"unmapped", "new", "ended", "entry", "entered"} <=> frames'[r] = 0
    <3>1. CASE r # s
      BY <1>1, <1>2, <2>0, <3>1 DEF Tops
    <3>2. CASE r = s
      BY <1>1, <1>2, <2>0, <3>2 DEF Tops
    <3> QED
      BY <3>1, <3>2
  <2>3. ASSUME NEW r \in Stacks, at'[r] = "unmapped" \/ (at'[r] = "ended" /\ ~Called(r)')
        PROVE  tstack'[r] = Bottom(r)
    <3>1. CASE r # s
      BY <1>2, <1>c, <1>tstack, <2>0, <2>3 DEF Tops
    <3>2. CASE r = s
      BY <1>2, <2>3, <3>2 DEF Tops, Address, Bottom
    <3> QED
      BY <3>1, <3>2
  <2>4. ASSUME NEW u \in halted' \cup {stopper'}, u \in Carriers \ switching'
        PROVE  tstack'[On(u)'] = sp'[u]
    <3>1. u # t /\ u \in halted \cup {stopper} /\ u \in Carriers \ switching
      BY <1>1, <2>4
    <3>2. On(u)' = On(u) /\ On(u) \in Stacks /\ On(u) # s /\ sp'[u] = sp[u]
      BY <1>1, <1>2, <3>1
    <3>3. tstack'[On(u)] = tstack[On(u)]
      BY <1>1, <1>2, <3>2, <1>tstack
    <3> QED
      BY <2>0, <3>1, <3>2, <3>3 DEF Tops
  <2> QED
    BY <2>1, <2>2, <2>3, <2>4 DEF Tops
<1>11. Kept'
  <2>0. Kept
    BY DEF Inv
  <2>1. /\ \A g \in Fibers : g \in listed' <=> at'[g] # "unmapped"
       /\ held' \subseteq listed' /\ condemned' \subseteq listed'
    BY <1>1, <1>p, <2>0, Names DEF Kept
  <2>2. ASSUME NEW g \in condemned'
        PROVE  g \notin held' /\ ~Called(g)' /\ at'[g] \in {"new", "ended"}
    BY <1>1, <1>c, <1>f1, <1>p, <2>0, Facts DEF Kept
  <2>3. stopper' # NoFiber => at'[On(stopper)'] = "run" /\ stopper' \notin halted'
    BY <1>1, <1>2, <1>p, <2>0, Facts DEF Kept
  <2> QED
    BY <2>1, <2>2, <2>3 DEF Kept
<1> QED
  BY <1>3, <1>4, <1>5, <1>6, <1>7, <1>8, <1>9, <1>10, <1>11 DEF Inv

\* callImpl after switchIn: the fiber has yielded or ended.
LEMMA InvCallEnd ==
  ASSUME Inv, NEW t \in Carriers, CallEnd(t)
  PROVE  Inv'
<1>a. PICK s : s = On(t)
  OBVIOUS
<1>d. /\ s \in Stacks /\ at[s] = "in unlocked" /\ t \notin halted /\ stopper # t
      /\ \A u \in Carriers : On(u) \in Stacks /\ (u # t => On(u) # s)
  BY <1>a, Here DEF CallEnd, At, EndCall
<1>m. /\ at[s] \in Active
      /\ at[s] \notin Before
      /\ at[s] \in After
      /\ at[s] \notin Leaving
      /\ at[s] \notin Returning
      /\ at[s] \notin Locking
      /\ at[s] \in Calling
  BY <1>d DEF Before, After, Calling, Leaving, Returning, Active, Locking
<1>f1. PICK f : f = callee[s]
  OBVIOUS
<1>f2. f \in Fibers /\ f \in Stacks /\ f # s
  BY <1>a, <1>d, <1>m, <1>f1, There
<1>f3. at[f] \in {"ended", "out away"}
  BY <1>d, <1>m, <1>f1 DEF Inv, Calls
<1>f4. \A r \in Stacks : callee[r] = f => r = s
  BY <1>d, <1>f1, <1>f2, Names DEF Inv, Calls
<1>f5. state[f] = "TERM" <=> at[f] = "ended"
  BY <1>f2, <1>f3 DEF Inv, States
<1>f6. curr[t] = s
  BY <1>a, <1>d, <1>m, There DEF Self
<1>f7. locals[s].tobj = t
  BY <1>a, <1>d, <1>m, There DEF Self
<1>f8. locals[s].cur = Self(s)
  BY <1>a, <1>d, <1>m, LocalHere
<1>f9. PICK S : S = {s} \cup {x \in {f} : state[x] = "TERM"}
  OBVIOUS
<1>f10. \A x \in Stacks : x \in S <=> x = s \/ (x = f /\ at[x] = "ended")
  BY <1>d, <1>f2, <1>f5, <1>f9
<1>f11. f # NoFiber /\ Self(s) \in Fibers \cup {NoFiber}
  BY <1>f2, Names DEF Self
<1>e. /\ at' = [at EXCEPT ![s] = "run"]
      /\ locals' = [locals EXCEPT ![s] = NoFiber]
      /\ callee' = [callee EXCEPT ![s] = NoFiber]
      /\ smThis' = [smThis EXCEPT ![t] = Self(s)]
      /\ tstack' = [x \in Stacks |-> IF x \in S THEN Bottom(x) ELSE tstack[x]]
  BY <1>a, <1>f1, <1>f6, <1>f7, <1>f8, <1>f9 DEF CallEnd, At, Goto, EndCall, worldVars, EndCall
<1>1. /\ s \in Stacks /\ at[s] = "in unlocked"
      /\ t \notin halted /\ stopper # t
      /\ UNCHANGED <<sp, frames, within, ehContext, listed, state, held>>
      /\ UNCHANGED <<curr, switching, ehSlot, stopper, halted, condemned>>
  BY <1>d DEF CallEnd, At, Goto, EndCall, worldVars, EndCall
<1>2. /\ at'[s] = "run" /\ \A r \in Stacks : r # s => at'[r] = at[r]
      /\ \A u \in Carriers : On(u)' = On(u) /\ On(u) \in Stacks /\ (u # t => On(u) # s)
  BY <1>1, <1>e, <1>d DEF Inv, TypeOK, On
<1>locals. locals'[s] = NoFiber /\ \A r \in Stacks : r # s => locals'[r] = locals[r]
  BY <1>d, <1>e DEF Inv, TypeOK, Locals
<1>callee. callee'[s] = NoFiber /\ \A r \in Stacks : r # s => callee'[r] = callee[r]
  BY <1>d, <1>e DEF Inv, TypeOK
<1>smThis. smThis'[t] = Self(s) /\ \A r \in Carriers : r # t => smThis'[r] = smThis[r]
  BY <1>e DEF Inv, TypeOK
<1>tstack. \A r \in Stacks : tstack'[r] = IF r = s \/ (r = f /\ at[r] = "ended") THEN Bottom(r) ELSE tstack[r]
  BY <1>e, <1>f10 DEF Inv, TypeOK
<1>c. \A r \in Stacks : Called(r)' <=> Called(r) /\ r # f
  BY <1>callee, <1>f1, <1>f4, Names DEF Called
<1>p. \A r \in Stacks :
        /\ at'[r] \in Active <=> at[r] \in Active
        /\ at'[r] \in Before <=> at[r] \in Before
        /\ at'[r] \in After <=> at[r] \in After /\ r # s
        /\ at'[r] \in Leaving <=> at[r] \in Leaving
        /\ at'[r] \in Returning <=> at[r] \in Returning
        /\ at'[r] \in Locking <=> at[r] \in Locking
        /\ at'[r] = "run" <=> at[r] = "run" \/ r = s
        /\ at'[r] = "entry" <=> at[r] = "entry"
        /\ at'[r] = "entered" <=> at[r] = "entered"
        /\ at'[r] = "in pushed" <=> at[r] = "in pushed"
        /\ at'[r] = "in back" <=> at[r] = "in back"
        /\ at'[r] = "in popped" <=> at[r] = "in popped"
        /\ at'[r] = "out back" <=> at[r] = "out back"
        /\ at'[r] = "out unlocked" <=> at[r] = "out unlocked"
        /\ at'[r] = "in away" <=> at[r] = "in away"
        /\ at'[r] = "out away" <=> at[r] = "out away"
        /\ at'[r] = "unmapped" <=> at[r] = "unmapped"
        /\ at'[r] = "new" <=> at[r] = "new"
        /\ at'[r] = "ended" <=> at[r] = "ended"
  BY <1>1, <1>2 DEF Before, After, Calling, Leaving, Returning, Active, Locking
<1>3. TypeOK'
  <2>1. at' \in [Stacks -> FiberPlaces]
    BY <1>e DEF Inv, TypeOK, FiberPlaces, Before, After, Calling, Leaving, Returning, Active
  <2>2. locals' \in [Stacks -> Locals \cup {NoFiber}]
    BY <1>e DEF Inv, TypeOK
  <2>3. callee' \in [Stacks -> Fibers \cup {NoFiber}]
    BY <1>e DEF Inv, TypeOK
  <2>4. smThis' \in [Carriers -> Fibers \cup {NoFiber}]
    BY <1>e, <1>f11 DEF Inv, TypeOK
  <2>5. tstack' \in [Stacks -> Addresses]
    BY <1>e DEF Inv, TypeOK, Addresses, Address, Bottom
  <2> QED
    BY <1>1, <2>1, <2>2, <2>3, <2>4, <2>5 DEF Inv, TypeOK
<1>4. Placed'
  <2>1. \A u \in Carriers : sp'[u] = Address(On(u), frames'[On(u)])
    <3> QED
      BY <1>1, <1>2 DEF Inv, Placed
  <2>2. \A u \in Carriers : at'[u] = at[u] \/ at'[u] \in {"run"} \cup Calling
    BY <1>2, Names DEF Inv, Placed, Before, After, Calling, Leaving, Returning, Active, Locking
  <2>3. \A r \in Stacks : at'[r] \in Active <=> at[r] \in Active
    BY <1>1, <1>p
  <2> QED
    BY <1>2, <2>1, <2>2, <2>3, PlacedSteady
<1>5. Carried'
  <2>0. Carried
    BY DEF Inv
  <2>1. ASSUME NEW u \in Carriers
        PROVE
          /\ curr'[u] = IF at'[On(u)'] \in {"in pushed", "in back"} THEN callee'[On(u)'] ELSE On(u)'
          /\ u \in switching' <=> at'[On(u)'] \in Locking
          /\ smThis'[u] = IF at'[On(u)'] \in Calling THEN callee'[On(u)'] ELSE Self(On(u)')
    <3>1. On(u)' = On(u) /\ On(u) \in Stacks
      BY <1>2
    <3>2. curr'[u] = IF at'[On(u)] \in {"in pushed", "in back"} THEN callee'[On(u)] ELSE On(u)
      BY <1>1, <1>p, <1>callee, <2>0, <3>1 DEF Carried
    <3>3. u \in switching' <=> at'[On(u)] \in Locking
      BY <1>1, <1>p, <2>0, <3>1 DEF Carried
    <3>4. smThis'[u] = IF at'[On(u)] \in Calling THEN callee'[On(u)] ELSE Self(On(u))
      <4>1. CASE u = t
        BY <1>a, <1>2, <1>smThis, <3>1, <4>1 DEF Calling, Before, After
      <4>2. CASE u # t
        BY <1>2, <1>smThis, <1>callee, <2>0, <4>2 DEF Carried, Calling
      <4> QED
        BY <4>1, <4>2
    <3> QED
      BY <3>1, <3>2, <3>3, <3>4
  <2> QED
    BY <2>1 DEF Carried
<1>6. Exceptions'
  BY <1>1, <1>2 DEF Inv, Exceptions
<1>7. Calls'
  <2>0. Calls
    BY DEF Inv
  <2>1. ASSUME NEW r \in Stacks
        PROVE  callee'[r] # NoFiber <=> at'[r] \in Calling \cup {"in away"}
    <3>1. CASE r = s
      BY <1>2, <1>callee, <3>1 DEF Calling, Before, After
    <3>2. CASE r # s
      BY <1>2, <1>callee, <2>0, <3>2 DEF Calls
    <3> QED
      BY <3>1, <3>2
  <2>2. ASSUME NEW r \in Stacks, NEW x \in Stacks, callee'[x] # NoFiber, callee'[x] = callee'[r]
        PROVE  x = r
    <3>1. x # s /\ r # s /\ callee[x] # NoFiber /\ callee[x] = callee[r]
      BY <1>callee, <2>2
    <3> QED
      BY <2>0, <3>1 DEF Calls
  <2>3. ASSUME NEW r \in Stacks
        PROVE  /\ at'[r] \in Before => at'[callee'[r]] \in {"new", "out away"}
               /\ at'[r] \in After => at'[callee'[r]] \in {"ended", "out away"}
               /\ at'[r] = "in away" => at'[callee'[r]] \in Active \cup {"in away"}
               /\ at'[r] \in {"in pushed", "in away", "in back"} => within'[callee'[r]] = r
    <3>1. CASE r = s
      BY <1>2, <3>1 DEF Before, After
    <3>2. CASE r # s
      <4>1. callee'[r] = callee[r] /\ at'[r] = at[r] /\ within' = within
        BY <1>1, <1>2, <1>callee, <3>2
      <4>2. CASE at[r] \in Calling \cup {"in away"}
        <5>1. callee[r] \in Stacks
          BY <4>2, Facts
        <5>2. /\ at[r] \in Before => at[callee[r]] \in {"new", "out away"}
              /\ at[r] \in After => at[callee[r]] \in {"ended", "out away"}
              /\ at[r] = "in away" => at[callee[r]] \in Active \cup {"in away"}
              /\ at[r] \in {"in pushed", "in away", "in back"} => within[callee[r]] = r
          BY <2>0 DEF Calls
        <5> QED
          BY <1>p, <4>1, <5>1, <5>2
      <4>3. CASE at[r] \notin Calling \cup {"in away"}
        BY <4>1, <4>3 DEF Calling, Before, After
      <4> QED
        BY <4>2, <4>3
    <3> QED
      BY <3>1, <3>2
  <2>4. ASSUME NEW x \in Fibers, at'[x] \in Active \cup {"in away"}
        PROVE  \E r \in Stacks : callee'[r] = x
    <3>1. x \in Stacks /\ x # NoFiber /\ at[x] \in Active \cup {"in away"}
      BY <1>p, <2>4, Names
    <3>2. PICK r \in Stacks : callee[r] = x
      BY <2>0, <3>1 DEF Calls, Called
    <3>3. x # f
      BY <1>f3, <3>1 DEF Active, Calling, Before, After, Leaving, Returning
    <3> QED
      BY <1>callee, <1>f1, <3>2, <3>3
  <2> QED
    BY <2>1, <2>2, <2>3, <2>4 DEF Calls, Called
<1>8. LocalsFit'
  <2>0. LocalsFit
    BY DEF Inv
  <2>1. ASSUME NEW r \in Stacks, at'[r] \in Calling \cup Leaving \cup Returning \cup {"in away", "out away"}
        PROVE  locals'[r] \in Locals /\ locals'[r].cur = Self(r) /\ locals'[r].oldp = r
    <3>1. r # s
      BY <1>2, <2>1 DEF Calling, Before, After, Leaving, Returning
    <3> QED
      BY <1>2, <1>locals, <2>0, <2>1, <3>1 DEF LocalsFit
  <2>2. ASSUME NEW u \in Carriers, at'[On(u)'] \in Calling \cup Leaving \cup {"out unlocked"}
        PROVE  locals'[On(u)'].tobj = u
    <3>1. On(u)' = On(u) /\ On(u) \in Stacks /\ On(u) # s
      BY <1>2, <2>2 DEF Calling, Before, After, Leaving
    <3>2. at'[On(u)] = at[On(u)] /\ locals'[On(u)] = locals[On(u)]
      BY <1>2, <1>locals, <3>1
    <3>3. at[On(u)] \in Calling \cup Leaving \cup {"out unlocked"} => locals[On(u)].tobj = u
      BY <2>0 DEF LocalsFit
    <3> QED
      BY <2>2, <3>1, <3>2, <3>3
  <2>3. ASSUME NEW r \in Stacks, at'[r] \in Calling \cup {"in away"}
        PROVE  /\ r # s /\ at[r] = at'[r] /\ callee'[r] = callee[r] /\ locals'[r] = locals[r]
               /\ callee[r] \in Stacks
    BY <1>2, <1>callee, <1>locals, <2>3, Facts DEF Calling, Before, After
  <2>4. ASSUME NEW r \in Stacks, at'[r] \in Calling \cup {"in away"}, at'[callee'[r]] \in Leaving
        PROVE  locals'[callee'[r]].newp = Address(r, frames'[r])
    <3>1. callee[r] # s /\ at[callee[r]] \in Leaving /\ at[r] \in Calling \cup {"in away"}
      BY <1>2, <2>3, <2>4 DEF Leaving
    <3>2. locals[callee[r]].newp = Address(r, frames[r])
      BY <2>0, <3>1 DEF LocalsFit
    <3>3. locals'[callee[r]] = locals[callee[r]] /\ callee'[r] = callee[r] /\ frames'[r] = frames[r]
      BY <1>1, <1>locals, <2>3, <2>4, <3>1
    <3> QED
      BY <3>2, <3>3
  <2>5. ASSUME NEW r \in Stacks, at'[r] \in Before
        PROVE  locals'[r].newp = Address(callee'[r], frames'[callee'[r]])
    <3>1. locals'[r] = locals[r] /\ callee'[r] = callee[r] /\ at[r] \in Before
      BY <2>3, <2>5 DEF Calling
    <3> QED
      BY <1>1, <2>0, <3>1 DEF LocalsFit
  <2>6. ASSUME NEW r \in Stacks, at'[r] = "in away"
        PROVE  /\ \A u \in Carriers : On(u)' = callee'[r] => locals'[r].tobj = u
               /\ at'[callee'[r]] = "in away" => locals'[callee'[r]].tobj = locals'[r].tobj
    <3>1. at[r] = "in away" /\ callee'[r] = callee[r] /\ locals'[r] = locals[r] /\ callee[r] \in Stacks
      BY <2>3, <2>6
    <3>2. at'[callee[r]] = "in away" => at[callee[r]] = "in away" /\ locals'[callee[r]] = locals[callee[r]]
      BY <1>2, <1>locals, <3>1
    <3>3. \A u \in Carriers : On(u)' = callee'[r] => locals'[r].tobj = u
      <4>1. \A u \in Carriers : On(u) = callee[r] => locals[r].tobj = u
        BY <2>0, <3>1 DEF LocalsFit
      <4>2. \A u \in Carriers : On(u)' = On(u)
        BY <1>2
      <4> QED
        BY ONLY <3>1, <4>1, <4>2
    <3>4. at[callee[r]] = "in away" => locals[callee[r]].tobj = locals[r].tobj
      BY <2>0, <3>1 DEF LocalsFit
    <3>5. at'[callee'[r]] = "in away" => locals'[callee'[r]].tobj = locals'[r].tobj
      BY ONLY <3>1, <3>2, <3>4
    <3> QED
      BY <3>3, <3>5
  <2> QED
    BY <2>1, <2>2, <2>4, <2>5, <2>6 DEF LocalsFit
<1>9. States'
  <2>0. States
    BY DEF Inv
  <2>1. ASSUME NEW g \in Fibers
        PROVE
    /\ at'[g] \in {"run", "in away"} \cup Calling => state'[g] = "EXEC"
    /\ at'[g] \in {"new", "entry", "entered", "out away"} \cup Returning => state'[g] = "HOLD"
    /\ at'[g] \in Leaving => state'[g] \in {"HOLD", "TERM"}
    /\ at'[g] \in {"ended", "unmapped"} => state'[g] = "TERM"
    <3>1. g \in Stacks
      BY Names
    <3>2. CASE g # s
      BY <1>1, <1>2, <2>0, <3>1, <3>2 DEF States
    <3>3. CASE g = s
      BY <1>1, <1>2, <2>0, <3>3 DEF States, Before, After, Calling, Leaving, Returning, Active, Locking
    <3> QED
      BY <3>2, <3>3
  <2> QED
    BY <2>1 DEF States
<1>10. Tops'
  <2>0. Tops
    BY DEF Inv
  <2>1. ASSUME NEW r \in Stacks
        PROVE
       /\ tstack'[r].stack = r
       /\ at'[r] \in {"in away", "out away", "new", "in back", "in popped", "out back", "entry"} =>
            tstack'[r] = Address(r, frames'[r])
    <3>1. CASE r # s
      <4>1. CASE r = f /\ at[r] = "ended"
        <5>1. tstack'[r] = Bottom(r) /\ at'[r] = "ended"
          BY <1>2, <1>tstack, <3>1, <4>1
        <5>2. Bottom(r).stack = r
          BY DEF Bottom, Address
        <5> QED
          BY <5>1, <5>2
      <4>2. CASE ~(r = f /\ at[r] = "ended")
        BY <1>1, <1>2, <1>tstack, <2>0, <3>1, <4>2 DEF Tops
      <4> QED
        BY <4>1, <4>2
    <3>2. CASE r = s
      <4>1. tstack'[s].stack = s
        <5>1. tstack'[s] = Bottom(s)
          BY <1>d, <1>tstack
        <5>2. Bottom(s).stack = s
          BY DEF Bottom, Address
        <5> QED
          BY <5>1, <5>2
      <4>2. at'[s] \notin {"in away", "out away", "new", "in back", "in popped", "out back", "entry"}
        BY <1>2
      <4> QED
        BY <3>2, <4>1, <4>2
    <3> QED
      BY <3>1, <3>2
  <2>2. ASSUME NEW r \in Stacks
        PROVE  at'[r] \in {"unmapped", "new", "ended", "entry", "entered"} <=> frames'[r] = 0
    <3>1. CASE r # s
      BY <1>1, <1>2, <2>0, <3>1 DEF Tops
    <3>2. CASE r = s
      BY <1>1, <1>2, <2>0, <3>2 DEF Tops
    <3> QED
      BY <3>1, <3>2
  <2>3. ASSUME NEW r \in Stacks, at'[r] = "unmapped" \/ (at'[r] = "ended" /\ ~Called(r)')
        PROVE  tstack'[r] = Bottom(r)
    <3>1. CASE r # s
      <4>1. CASE r = f /\ at[r] = "ended"
        BY <1>tstack, <4>1
      <4>2. CASE ~(r = f /\ at[r] = "ended")
        <5>1. at[r] = "unmapped" \/ (at[r] = "ended" /\ ~Called(r))
          BY <1>2, <1>c, <1>d, <2>3, <3>1, <4>2
        <5> QED
          BY <1>tstack, <2>0, <3>1, <4>2, <5>1 DEF Tops
      <4> QED
        BY <4>1, <4>2
    <3>2. CASE r = s
      BY <1>tstack, <3>2 DEF Tops, Address, Bottom
    <3> QED
      BY <3>1, <3>2
  <2>4. ASSUME NEW u \in halted' \cup {stopper'}, u \in Carriers \ switching'
        PROVE  tstack'[On(u)'] = sp'[u]
    <3>1. u # t /\ u \in halted \cup {stopper} /\ u \in Carriers \ switching
      BY <1>1, <2>4
    <3>2. On(u)' = On(u) /\ On(u) \in Stacks /\ On(u) # s /\ sp'[u] = sp[u]
      BY <1>1, <1>2, <3>1
    <3>3. tstack'[On(u)] = tstack[On(u)]
      <4>1. at[On(u)] \in Active /\ at[f] \notin Active
        BY <1>f3, <2>4, Here DEF Active, Calling, Before, After, Leaving, Returning
      <4>2. On(u) # f
        BY <4>1
      <4> QED
        BY <1>tstack, <3>2, <4>2
    <3> QED
      BY <2>0, <3>1, <3>2, <3>3 DEF Tops
  <2> QED
    BY <2>1, <2>2, <2>3, <2>4 DEF Tops
<1>11. Kept'
  <2>0. Kept
    BY DEF Inv
  <2>1. /\ \A g \in Fibers : g \in listed' <=> at'[g] # "unmapped"
       /\ held' \subseteq listed' /\ condemned' \subseteq listed'
    BY <1>1, <1>p, <2>0, Names DEF Kept
  <2>2. ASSUME NEW g \in condemned'
        PROVE  g \notin held' /\ ~Called(g)' /\ at'[g] \in {"new", "ended"}
    BY <1>1, <1>c, <1>p, <2>0, Facts DEF Kept
  <2>3. stopper' # NoFiber => at'[On(stopper)'] = "run" /\ stopper' \notin halted'
    BY <1>1, <1>2, <1>p, <2>0, Facts DEF Kept
  <2> QED
    BY <2>1, <2>2, <2>3 DEF Kept
<1> QED
  BY <1>3, <1>4, <1>5, <1>6, <1>7, <1>8, <1>9, <1>10, <1>11 DEF Inv

\* Thread t leaves stack s and goes on on stack d.
JumpedTo(t, s, d) ==
  /\ t \notin halted /\ stopper # t
  /\ UNCHANGED <<callee, locals, within, ehContext, listed, state, held>>
  /\ UNCHANGED <<curr, switching, smThis, ehSlot, stopper, halted, condemned>>
  /\ at'[s] = IF at[s] = "in pushed" THEN "in away"
              ELSE IF state[s] = "TERM" THEN "ended" ELSE "out away"
  /\ at'[d] = Arrival(at[d])
  /\ \A r \in Stacks : r # s /\ r # d => at'[r] = at[r]
  /\ at' = [at EXCEPT ![s] = at'[s], ![d] = at'[d]]
  /\ sp' = [sp EXCEPT ![t] = Address(d, frames[d])]
  /\ sp'[t] = Address(d, frames[d]) /\ \A u \in Carriers : u # t => sp'[u] = sp[u]
  /\ tstack' = [tstack EXCEPT ![s] = Address(s, frames[s])]
  /\ tstack'[s] = Address(s, frames[s]) /\ \A r \in Stacks : r # s => tstack'[r] = tstack[r]
  /\ frames' = IF at'[s] = "ended" THEN [frames EXCEPT ![s] = 0] ELSE frames
  /\ frames'[s] = IF at'[s] = "ended" THEN 0 ELSE frames[s]
  /\ \A r \in Stacks : r # s => frames'[r] = frames[r]
  /\ On(t)' = d
  /\ \A u \in Carriers : u # t => On(u)' = On(u) /\ On(u) \in Stacks /\ On(u) # s /\ On(u) # d

\* What a switch changes: one thread is on another stack.
LEMMA Jumped ==
  ASSUME Inv, NEW t \in Carriers, Switch(t), NEW s \in Stacks, s = On(t),
         NEW d \in Stacks, d # s, at[d] \notin Active, locals[s].newp = Address(d, frames[d])
  PROVE  JumpedTo(t, s, d)
<1>1. /\ t \notin halted /\ stopper # t /\ at[s] \in {"in pushed", "out locked"}
      /\ UNCHANGED <<callee, locals, within, ehContext, listed, state, held>>
      /\ UNCHANGED <<curr, switching, smThis, ehSlot, stopper, halted, condemned>>
  BY DEF Switch, Jump, At, threadVars, worldVars
<1>2. locals[s].oldp = s /\ sp[t] = Address(s, frames[s]) /\ locals[s].newp.stack = d
  <2>1. at[s] \in Calling \/ at[s] \in Leaving \/ at[s] \in Returning
    BY <1>1 DEF Calling, Before, Leaving
  <2>2. locals[s].oldp = s
    BY <2>1, LocalHere
  <2>3. sp[t] = Address(s, frames[s])
    BY Here
  <2>4. locals[s].newp.stack = d
    BY DEF Address
  <2> QED
    BY <2>2, <2>3, <2>4
<1>3. PICK away : away = IF at[s] = "in pushed" THEN "in away"
                         ELSE IF state[s] = "TERM" THEN "ended" ELSE "out away"
  OBVIOUS
<1>4. /\ at' = [at EXCEPT ![s] = away, ![d] = Arrival(@)]
      /\ sp' = [sp EXCEPT ![t] = Address(d, frames[d])]
      /\ frames' = IF away = "ended" THEN [frames EXCEPT ![s] = 0] ELSE frames
      /\ tstack' = [tstack EXCEPT ![s] = Address(s, frames[s])]
  BY <1>2, <1>3 DEF Switch, Jump
<1>5. /\ at'[s] = away /\ at'[d] = Arrival(at[d])
      /\ \A r \in Stacks : r # s /\ r # d => at'[r] = at[r]
      /\ at' = [at EXCEPT ![s] = at'[s], ![d] = at'[d]]
  BY <1>4 DEF Inv, TypeOK
<1>6. /\ sp' = [sp EXCEPT ![t] = Address(d, frames[d])]
      /\ sp'[t] = Address(d, frames[d]) /\ \A u \in Carriers : u # t => sp'[u] = sp[u]
  BY <1>4 DEF Inv, TypeOK
<1>7. /\ tstack' = [tstack EXCEPT ![s] = Address(s, frames[s])]
      /\ tstack'[s] = Address(s, frames[s]) /\ \A r \in Stacks : r # s => tstack'[r] = tstack[r]
  BY <1>4 DEF Inv, TypeOK
<1>8. /\ frames' = IF at'[s] = "ended" THEN [frames EXCEPT ![s] = 0] ELSE frames
      /\ frames'[s] = IF at'[s] = "ended" THEN 0 ELSE frames[s]
      /\ \A r \in Stacks : r # s => frames'[r] = frames[r]
  BY <1>4, <1>5 DEF Inv, TypeOK
<1>9. On(t)' = d /\ \A u \in Carriers : u # t => On(u)' = On(u)
  BY <1>6 DEF On, Address
<1>10. ASSUME NEW u \in Carriers, u # t
       PROVE  On(u) \in Stacks /\ On(u) # s /\ On(u) # d
  BY <1>10, Here
<1>11. at'[s] = IF at[s] = "in pushed" THEN "in away"
                ELSE IF state[s] = "TERM" THEN "ended" ELSE "out away"
  BY <1>3, <1>5
<1> QED
  BY <1>1, <1>5, <1>6, <1>7, <1>8, <1>9, <1>10, <1>11 DEF JumpedTo

\* fiber_switchContext into a fiber.
LEMMA InvSwitchIn ==
  ASSUME Inv, NEW t \in Carriers, Switch(t), at[On(t)] = "in pushed"
  PROVE  Inv'
<1>a. PICK s, d : s = On(t) /\ d = callee[s]
  OBVIOUS
<1>m. s \in Stacks /\ at[s] = "in pushed" /\ at[s] \in Calling /\ at[s] \in Active /\ at[s] \in Locking
  BY <1>a, Here DEF Calling, Before, Active, Locking
<1>d. /\ d \in Fibers /\ d \in Stacks /\ d # s /\ d \notin Carriers /\ d # NoFiber
      /\ at[d] \in {"new", "out away"} /\ at[d] \notin Active /\ at[d] \notin Calling
      /\ locals[s].newp = Address(d, frames[d]) /\ locals[s].tobj = t /\ within[d] = s
      /\ curr[t] = d /\ smThis[t] = d /\ t \in switching
  <2>1. d \in Fibers /\ d \in Stacks /\ d # s /\ locals[s].tobj = t /\ within[d] = s /\ curr[t] = d
        /\ smThis[t] = d /\ t \in switching
    BY <1>a, <1>m, There
  <2>2. at[d] \in {"new", "out away"}
    BY <1>a, <1>m DEF Inv, Calls, Before
  <2>3. locals[s].newp = Address(d, frames[d])
    BY <1>a, <1>m DEF Inv, LocalsFit, Before
  <2> QED
    BY <2>1, <2>2, <2>3, Names DEF Active, Calling, Before, After, Leaving, Returning
<1>j. JumpedTo(t, s, d)
  BY <1>a, <1>m, <1>d, Jumped
<1>1. /\ t \notin halted /\ stopper # t
      /\ UNCHANGED <<callee, locals, within, ehContext, listed, state, held>>
      /\ UNCHANGED <<curr, switching, smThis, ehSlot, stopper, halted, condemned>>
  BY <1>j DEF JumpedTo
<1>2. /\ at'[s] = "in away" /\ (at'[d] = IF at[d] = "new" THEN "entry" ELSE "out back")
      /\ \A r \in Stacks : r # s /\ r # d => at'[r] = at[r]
      /\ frames' = frames
  BY <1>j, <1>m, <1>d DEF JumpedTo, Arrival
<1>sp. sp'[t] = Address(d, frames[d]) /\ \A u \in Carriers : u # t => sp'[u] = sp[u]
  BY <1>j DEF JumpedTo
<1>tstack. tstack'[s] = Address(s, frames[s]) /\ \A r \in Stacks : r # s => tstack'[r] = tstack[r]
  BY <1>j DEF JumpedTo
<1>on. /\ On(t)' = d
       /\ \A u \in Carriers : u # t => On(u)' = On(u) /\ On(u) \in Stacks /\ On(u) # s /\ On(u) # d
  BY <1>j DEF JumpedTo
<1>e. /\ at' = [at EXCEPT ![s] = at'[s], ![d] = at'[d]]
      /\ sp' = [sp EXCEPT ![t] = Address(d, frames[d])]
      /\ tstack' = [tstack EXCEPT ![s] = Address(s, frames[s])]
  BY <1>j DEF JumpedTo
<1>p. /\ at'[s] \notin Calling \cup Leaving \cup Returning \cup Active
      /\ at'[d] \in Active /\ at'[d] \in Locking
      /\ at'[d] \notin Calling \cup Leaving \cup {"run", "in away", "out unlocked"}
  BY <1>2 DEF Active, Calling, Before, After, Leaving, Returning, Locking
<1>o. ASSUME NEW r \in Stacks, callee[r] = d
      PROVE  r = s
  <2>1. callee[r] # NoFiber /\ callee[r] = callee[s]
    BY <1>a, <1>d, <1>o
  <2>2. \A x, y \in Stacks : callee[x] # NoFiber /\ callee[x] = callee[y] => x = y
    BY DEF Inv, Calls
  <2> QED
    BY <1>m, <2>1, <2>2
<1>c. \A r \in Stacks : Called(r)' <=> Called(r)
  BY <1>1 DEF Called
<1>3. TypeOK'
  <2>1. at' \in [Stacks -> FiberPlaces]
    <3>1. at'[s] \in FiberPlaces /\ at'[d] \in FiberPlaces
      BY <1>2, <1>p DEF FiberPlaces
    <3> QED
      BY <1>e, <1>m, <1>d, <3>1 DEF Inv, TypeOK
  <2>2. sp' \in [Carriers -> Addresses] /\ tstack' \in [Stacks -> Addresses]
    <3>1. Address(d, frames[d]) \in Addresses /\ Address(s, frames[s]) \in Addresses
      BY <1>m, <1>d DEF Inv, TypeOK, Address, Addresses
    <3> QED
      BY <1>e, <1>m, <3>1 DEF Inv, TypeOK
  <2> QED
    BY <1>1, <1>2, <2>1, <2>2 DEF Inv, TypeOK
<1>4. Placed'
  <2>1. ASSUME NEW u \in Carriers
        PROVE  sp'[u] = Address(On(u)', frames'[On(u)'])
    <3>1. CASE u = t
      BY <1>2, <1>sp, <1>on, <3>1
    <3>2. CASE u # t
      BY <1>2, <1>sp, <1>on, <3>2 DEF Inv, Placed
    <3> QED
      BY <3>1, <3>2
  <2>2. ASSUME NEW u \in Carriers, NEW v \in Carriers, u # v
        PROVE  On(u)' # On(v)'
    BY <1>on, <2>2, Here
  <2>3. ASSUME NEW r \in Stacks
        PROVE  at'[r] \in Active <=> \E u \in Carriers : On(u)' = r
    <3>1. CASE r = s
      BY <1>p, <1>d, <1>on, <3>1
    <3>2. CASE r = d
      BY <1>p, <1>on, <3>2
    <3>3. CASE r # s /\ r # d
      BY <1>2, <1>a, <1>on, <3>3 DEF Inv, Placed
    <3> QED
      BY <3>1, <3>2, <3>3
  <2>4. ASSUME NEW u \in Carriers
        PROVE  at'[u] \in {"run", "in away"} \cup Calling
    BY <1>2, <1>d, Names DEF Inv, Placed
  <2> QED
    BY <2>1, <2>2, <2>3, <2>4 DEF Placed
<1>5. Carried'
  <2>0. Carried
    BY DEF Inv
  <2>1. ASSUME NEW u \in Carriers
        PROVE
          /\ curr'[u] = IF at'[On(u)'] \in {"in pushed", "in back"} THEN callee'[On(u)'] ELSE On(u)'
          /\ u \in switching' <=> at'[On(u)'] \in Locking
          /\ smThis'[u] = IF at'[On(u)'] \in Calling THEN callee'[On(u)'] ELSE Self(On(u)')
    <3>1. CASE u = t
      <4>1. at'[d] \notin {"in pushed", "in back"}
        BY <1>2
      <4> QED
        BY <1>1, <1>d, <1>p, <1>on, <3>1, <4>1 DEF Self
    <3>2. CASE u # t
      <4>1. On(u)' = On(u) /\ at'[On(u)] = at[On(u)]
        BY <1>2, <1>on, <3>2
      <4> QED
        BY <1>1, <2>0, <4>1 DEF Carried
    <3> QED
      BY <3>1, <3>2
  <2> QED
    BY <2>1 DEF Carried
<1>6. Exceptions'
  BY <1>1 DEF Inv, Exceptions
<1>7. Calls'
  <2>0. Calls
    BY DEF Inv
  <2>1. ASSUME NEW r \in Stacks
        PROVE  callee'[r] # NoFiber <=> at'[r] \in Calling \cup {"in away"}
    <3>1. CASE r = s
      BY <1>1, <1>2, <1>a, <1>d, <3>1
    <3>2. CASE r = d
      <4>1. callee[d] = NoFiber
        BY <2>0, <1>d DEF Calls
      <4> QED
        BY <1>1, <1>p, <3>2, <4>1
    <3>3. CASE r # s /\ r # d
      BY <1>1, <1>2, <2>0, <3>3 DEF Calls
    <3> QED
      BY <3>1, <3>2, <3>3
  <2>2. \A r, x \in Stacks : callee'[x] # NoFiber /\ callee'[x] = callee'[r] => x = r
    BY <1>1, <2>0 DEF Calls
  <2>3. ASSUME NEW r \in Stacks
        PROVE  /\ at'[r] \in Before => at'[callee'[r]] \in {"new", "out away"}
               /\ at'[r] \in After => at'[callee'[r]] \in {"ended", "out away"}
               /\ at'[r] = "in away" => at'[callee'[r]] \in Active \cup {"in away"}
               /\ at'[r] \in {"in pushed", "in away", "in back"} => within'[callee'[r]] = r
    <3>1. CASE r = s
      BY <1>1, <1>2, <1>a, <1>d, <1>p, <3>1 DEF Calling
    <3>2. CASE r = d
      <4>1. at'[r] \notin Before \cup After \cup {"in pushed", "in away", "in back"}
        BY <1>p, <3>2 DEF Calling, Before, After
      <4> QED
        BY <4>1
    <3>3. CASE r # s /\ r # d
      <4>1. at'[r] = at[r] /\ callee'[r] = callee[r] /\ callee[r] # d
        BY <1>1, <1>2, <1>o, <3>3
      <4>2. /\ at[r] \in Before => at[callee[r]] \in {"new", "out away"}
            /\ at[r] \in After => at[callee[r]] \in {"ended", "out away"}
            /\ at[r] = "in away" => at[callee[r]] \in Active \cup {"in away"}
            /\ at[r] \in {"in pushed", "in away", "in back"} => within[callee[r]] = r
        BY <2>0 DEF Calls
      <4>3. CASE at[r] \in Calling \cup {"in away"}
        <5>1. callee[r] \in Stacks
          BY <4>3, Facts
        <5>2. CASE callee[r] = s
          BY <1>1, <1>2, <1>m, <4>1, <4>2, <5>2 DEF Active
        <5>3. CASE callee[r] # s
          BY <1>1, <1>2, <4>1, <4>2, <5>1, <5>3
        <5> QED
          BY <5>2, <5>3
      <4>4. CASE at[r] \notin Calling \cup {"in away"}
        BY <4>1, <4>4 DEF Calling, Before, After
      <4> QED
        BY <4>3, <4>4
    <3> QED
      BY <3>1, <3>2, <3>3
  <2>4. ASSUME NEW x \in Fibers, at'[x] \in Active \cup {"in away"}
        PROVE  \E r \in Stacks : callee'[r] = x
    <3>1. CASE x = d
      BY <1>1, <1>a, <1>m, <3>1
    <3>2. CASE x # d
      <4>1. x \in Stacks /\ at[x] \in Active \cup {"in away"}
        BY <1>2, <1>m, <2>4, <3>2, Names
      <4> QED
        BY <1>1, <2>0, <4>1 DEF Calls, Called
    <3> QED
      BY <3>1, <3>2
  <2> QED
    BY <2>1, <2>2, <2>3, <2>4 DEF Calls, Called
<1>8. LocalsFit'
  <2>0. LocalsFit
    BY DEF Inv
  <2>1. ASSUME NEW r \in Stacks, at'[r] \in Calling \cup Leaving \cup Returning \cup {"in away", "out away"}
        PROVE  locals'[r] \in Locals /\ locals'[r].cur = Self(r) /\ locals'[r].oldp = r
    <3>1. at[r] \in Calling \cup Leaving \cup Returning \cup {"in away", "out away"}
      <4>1. CASE r = s
        BY <1>m, <4>1
      <4>2. CASE r = d
        BY <1>2, <1>d, <2>1, <4>2 DEF Calling, Before, After, Leaving, Returning
      <4>3. CASE r # s /\ r # d
        BY <1>2, <2>1, <4>3
      <4> QED
        BY <4>1, <4>2, <4>3
    <3> QED
      BY <1>1, <2>0, <3>1 DEF LocalsFit
  <2>2. ASSUME NEW u \in Carriers, at'[On(u)'] \in Calling \cup Leaving \cup {"out unlocked"}
        PROVE  locals'[On(u)'].tobj = u
    <3>1. u # t
      BY <1>p, <1>on, <2>2
    <3>2. On(u)' = On(u) /\ at'[On(u)] = at[On(u)]
      BY <1>2, <1>on, <3>1
    <3>3. at[On(u)] \in Calling \cup Leaving \cup {"out unlocked"} => locals[On(u)].tobj = u
      BY <2>0 DEF LocalsFit
    <3> QED
      BY <1>1, <2>2, <3>2, <3>3
  <2>3. ASSUME NEW r \in Stacks, at'[r] \in Calling \cup {"in away"}, r # s
        PROVE  /\ r # d /\ at'[r] = at[r] /\ callee[r] \in Stacks /\ callee[r] # d
    <3>1. r # d
      BY <1>p, <2>3
    <3>2. at'[r] = at[r]
      BY <1>2, <2>3, <3>1
    <3> QED
      BY <1>o, <2>3, <3>1, <3>2, Facts
  <2>4. ASSUME NEW r \in Stacks, at'[r] \in Calling \cup {"in away"}, at'[callee'[r]] \in Leaving
        PROVE  locals'[callee'[r]].newp = Address(r, frames'[r])
    <3>1. callee[r] # d /\ callee[r] # s
      BY <1>1, <1>p, <2>4
    <3>2. r # s
      BY <1>a, <3>1
    <3>3. at[r] \in Calling \cup {"in away"} /\ at[callee[r]] \in Leaving
      BY <1>1, <1>2, <2>3, <2>4, <3>1, <3>2
    <3>4. locals[callee[r]].newp = Address(r, frames[r])
      BY <2>0, <3>3 DEF LocalsFit
    <3> QED
      BY <1>1, <1>2, <3>4
  <2>5. ASSUME NEW r \in Stacks, at'[r] \in Before
        PROVE  locals'[r].newp = Address(callee'[r], frames'[callee'[r]])
    <3>1. r # s
      BY <1>p, <2>5 DEF Calling
    <3>2. at[r] \in Before
      BY <2>3, <2>5, <3>1 DEF Calling
    <3> QED
      BY <1>1, <1>2, <2>0, <3>2 DEF LocalsFit
  <2>6. ASSUME NEW r \in Stacks, at'[r] = "in away", NEW u \in Carriers, On(u)' = callee'[r]
        PROVE  locals'[r].tobj = u
    <3>1. CASE r = s
      <4>1. On(u)' = d
        BY <1>1, <1>a, <2>6, <3>1
      <4>2. u = t
        BY <1>on, <4>1
      <4> QED
        BY <1>1, <1>d, <3>1, <4>2
    <3>2. CASE r # s
      <4>1. at[r] = "in away" /\ callee[r] # d
        BY <2>3, <2>6, <3>2
      <4>2. u # t
        BY <1>1, <1>on, <2>6, <4>1
      <4>3. On(u) = callee[r]
        BY <1>1, <1>on, <2>6, <4>2
      <4> QED
        BY <1>1, <2>0, <4>1, <4>3 DEF LocalsFit
    <3> QED
      BY <3>1, <3>2
  <2>7. ASSUME NEW r \in Stacks, at'[r] = "in away", at'[callee'[r]] = "in away"
        PROVE  locals'[callee'[r]].tobj = locals'[r].tobj
    <3>1. callee[r] # d
      BY <1>1, <1>p, <2>7
    <3>2. r # s
      BY <1>a, <3>1
    <3>3. at[r] = "in away" /\ callee[r] \in Stacks
      BY <2>3, <2>7, <3>2
    <3>4. CASE callee[r] = s
      <4>1. locals[r].tobj = t
        BY <1>a, <2>0, <3>3, <3>4 DEF LocalsFit
      <4> QED
        BY <1>1, <1>d, <3>4, <4>1
    <3>5. CASE callee[r] # s
      <4>1. at[callee[r]] = "in away"
        BY <1>1, <1>2, <2>7, <3>1, <3>3, <3>5
      <4> QED
        BY <1>1, <2>0, <3>3, <4>1 DEF LocalsFit
    <3> QED
      BY <3>4, <3>5
  <2> QED
    BY <2>1, <2>2, <2>4, <2>5, <2>6, <2>7 DEF LocalsFit
<1>9. States'
  <2>0. States
    BY DEF Inv
  <2>1. ASSUME NEW f \in Fibers
        PROVE
    /\ at'[f] \in {"run", "in away"} \cup Calling => state'[f] = "EXEC"
    /\ at'[f] \in {"new", "entry", "entered", "out away"} \cup Returning => state'[f] = "HOLD"
    /\ at'[f] \in Leaving => state'[f] \in {"HOLD", "TERM"}
    /\ at'[f] \in {"ended", "unmapped"} => state'[f] = "TERM"
    <3>1. f \in Stacks
      BY Names
    <3>2. CASE f = s
      <4>1. state[f] = "EXEC"
        BY <1>m, <2>0, <3>2 DEF States
      <4> QED
        BY <1>1, <1>2, <1>p, <3>2, <4>1
    <3>3. CASE f = d
      <4>1. state[f] = "HOLD"
        BY <1>d, <2>0, <3>3 DEF States
      <4> QED
        BY <1>1, <1>2, <1>p, <3>3, <4>1
    <3>4. CASE f # s /\ f # d
      BY <1>1, <1>2, <2>0, <3>1, <3>4 DEF States
    <3> QED
      BY <3>2, <3>3, <3>4
  <2> QED
    BY <2>1 DEF States
<1>10. Tops'
  <2>0. Tops
    BY DEF Inv
  <2>1. ASSUME NEW r \in Stacks
        PROVE
       /\ tstack'[r].stack = r
       /\ at'[r] \in {"in away", "out away", "new", "in back", "in popped", "out back", "entry"} =>
            tstack'[r] = Address(r, frames'[r])
       /\ at'[r] \in {"unmapped", "new", "ended", "entry", "entered"} <=> frames'[r] = 0
       /\ at'[r] = "unmapped" \/ (at'[r] = "ended" /\ ~Called(r)') => tstack'[r] = Bottom(r)
    <3>1. CASE r = s
      <4>1. Address(s, frames[s]).stack = s
        BY DEF Address
      <4>2. frames[s] # 0
        BY <1>m, <2>0 DEF Tops
      <4> QED
        BY <1>2, <1>tstack, <3>1, <4>1, <4>2
    <3>2. CASE r = d
      <4>1. tstack[d].stack = d /\ tstack[d] = Address(d, frames[d]) /\ (at[d] = "new" <=> frames[d] = 0)
        BY <1>d, <2>0 DEF Tops
      <4> QED
        BY <1>2, <1>d, <1>tstack, <3>2, <4>1
    <3>3. CASE r # s /\ r # d
      BY <1>1, <1>2, <1>c, <1>tstack, <2>0, <3>3 DEF Tops
    <3> QED
      BY <3>1, <3>2, <3>3
  <2>2. ASSUME NEW u \in halted' \cup {stopper'}, u \in Carriers \ switching'
        PROVE  tstack'[On(u)'] = sp'[u]
    <3>1. u # t /\ u \in halted \cup {stopper} /\ u \in Carriers \ switching
      BY <1>1, <2>2
    <3>2. On(u)' = On(u) /\ sp'[u] = sp[u] /\ tstack'[On(u)] = tstack[On(u)]
      BY <1>on, <1>sp, <1>tstack, <3>1
    <3> QED
      BY <2>0, <3>1, <3>2 DEF Tops
  <2> QED
    BY <2>1, <2>2 DEF Tops
<1>11. Kept'
  <2>0. Kept
    BY DEF Inv
  <2>1. ASSUME NEW f \in Fibers
        PROVE  f \in listed' <=> at'[f] # "unmapped"
    <3>1. f \in Stacks /\ (f \in listed <=> at[f] # "unmapped")
      BY <2>0, Names DEF Kept
    <3> QED
      BY <1>1, <1>2, <1>m, <1>d, <3>1
  <2>2. ASSUME NEW f \in condemned'
        PROVE  f \notin held' /\ ~Called(f)' /\ at'[f] \in {"new", "ended"}
    <3>1. f \in Stacks /\ f \notin held /\ ~Called(f) /\ at[f] \in {"new", "ended"}
      BY <1>1, <2>0, <2>2, Facts DEF Kept
    <3>2. f # d /\ f # s
      BY <1>a, <1>m, <3>1 DEF Called
    <3> QED
      BY <1>1, <1>2, <1>c, <3>1, <3>2
  <2>3. stopper' # NoFiber => at'[On(stopper)'] = "run" /\ stopper' \notin halted'
    <3>1. SUFFICES ASSUME stopper # NoFiber
                   PROVE  at'[On(stopper)'] = "run" /\ stopper \notin halted
      BY <1>1
    <3>2. PICK u \in Carriers : u = stopper /\ u # t /\ at[On(u)] = "run" /\ u \notin halted
      BY <1>1, <2>0, <3>1, Facts DEF Kept
    <3>3. On(u)' = On(u) /\ at'[On(u)] = "run"
      BY <1>2, <1>on, <3>2
    <3> QED
      BY <1>1, <3>2, <3>3
  <2> QED
    BY <1>1, <2>0, <2>1, <2>2, <2>3 DEF Kept
<1> QED
  BY <1>3, <1>4, <1>5, <1>6, <1>7, <1>8, <1>9, <1>10, <1>11 DEF Inv

\* fiber_switchContext out of a fiber, to whoever called it.
LEMMA InvSwitchOut ==
  ASSUME Inv, NEW t \in Carriers, Switch(t), at[On(t)] = "out locked"
  PROVE  Inv'
<1>a. PICK s : s = On(t)
  OBVIOUS
<1>m. /\ s \in Stacks /\ s \in Fibers /\ s \notin Carriers /\ at[s] = "out locked" /\ callee[s] = NoFiber
      /\ at[s] \in Leaving /\ at[s] \in Active /\ at[s] \in Locking /\ at[s] \notin Calling
  <2>1. at[s] = "out locked" /\ at[s] \in Leaving /\ at[s] \in Active /\ at[s] \in Locking /\ at[s] \notin Calling
    BY <1>a DEF Leaving, Active, Locking, Calling, Before, After
  <2>2. s \in Stacks /\ s \in Fibers /\ s \notin Carriers
    BY <1>a, <2>1, Here, There, Names
  <2>3. callee[s] = NoFiber
    BY <2>1, <2>2 DEF Inv, Calls
  <2> QED
    BY <2>1, <2>2, <2>3
<1>f. curr[t] = s /\ smThis[t] = s /\ t \in switching
  BY <1>a, <1>m, There DEF Self
<1>b. PICK d \in Stacks :
        /\ callee[d] = s /\ at[d] = "in away" /\ within[s] = d
        /\ tstack[d] = Address(d, frames[d])
        /\ \A r \in Stacks : callee[r] = s => r = d
        /\ \A u \in Carriers : On(u) = s => locals[d].tobj = u
  BY <1>m, Caller
<1>d. /\ d \in Stacks /\ callee[d] = s /\ at[d] = "in away" /\ d # s /\ s # NoFiber
      /\ at[d] \notin Active /\ at[d] \notin Calling /\ locals[d].tobj = t /\ within[s] = d
      /\ locals[s].newp = Address(d, frames[d])
  <2>1. locals[s].newp = Address(d, frames[d])
    BY <1>m, <1>b DEF Inv, LocalsFit
  <2>2. locals[d].tobj = t
    BY <1>a, <1>b
  <2> QED
    BY <1>b, <1>m, <2>1, <2>2, Names DEF Active, Calling, Before, After, Leaving, Returning
<1>j. JumpedTo(t, s, d)
  BY <1>a, <1>m, <1>d, Jumped
<1>1. /\ t \notin halted /\ stopper # t
      /\ UNCHANGED <<callee, locals, within, ehContext, listed, state, held>>
      /\ UNCHANGED <<curr, switching, smThis, ehSlot, stopper, halted, condemned>>
  BY <1>j DEF JumpedTo
<1>2. /\ (at'[s] = IF state[s] = "TERM" THEN "ended" ELSE "out away") /\ at'[d] = "in back"
      /\ \A r \in Stacks : r # s /\ r # d => at'[r] = at[r]
  BY <1>j, <1>m, <1>d DEF JumpedTo, Arrival
<1>fr. /\ (frames'[s] = IF at'[s] = "ended" THEN 0 ELSE frames[s])
       /\ \A r \in Stacks : r # s => frames'[r] = frames[r]
  BY <1>j DEF JumpedTo
<1>sp. sp'[t] = Address(d, frames[d]) /\ \A u \in Carriers : u # t => sp'[u] = sp[u]
  BY <1>j DEF JumpedTo
<1>tstack. tstack'[s] = Address(s, frames[s]) /\ \A r \in Stacks : r # s => tstack'[r] = tstack[r]
  BY <1>j DEF JumpedTo
<1>on. /\ On(t)' = d
       /\ \A u \in Carriers : u # t => On(u)' = On(u) /\ On(u) \in Stacks /\ On(u) # s /\ On(u) # d
  BY <1>j DEF JumpedTo
<1>e. /\ at' = [at EXCEPT ![s] = at'[s], ![d] = at'[d]]
      /\ sp' = [sp EXCEPT ![t] = Address(d, frames[d])]
      /\ tstack' = [tstack EXCEPT ![s] = Address(s, frames[s])]
      /\ frames' = IF at'[s] = "ended" THEN [frames EXCEPT ![s] = 0] ELSE frames
  BY <1>j DEF JumpedTo
<1>p. /\ at'[s] \notin Calling \cup Leaving \cup Returning \cup Active \cup {"in away"}
      /\ at'[s] \in {"ended", "out away"}
      /\ at'[d] \in Active /\ at'[d] \in Locking /\ at'[d] \in Calling /\ at'[d] \in After
      /\ at'[d] \notin Before \cup Leaving \cup Returning \cup {"run", "in away", "out unlocked"}
  BY <1>2 DEF Active, Calling, Before, After, Leaving, Returning, Locking
<1>o. \A r \in Stacks : callee[r] = s => r = d
  BY <1>b
<1>c. \A r \in Stacks : Called(r)' <=> Called(r)
  BY <1>1 DEF Called
<1>3. TypeOK'
  <2>1. at' \in [Stacks -> FiberPlaces]
    <3>1. at'[s] \in FiberPlaces /\ at'[d] \in FiberPlaces
      BY <1>2, <1>p DEF FiberPlaces
    <3> QED
      BY <1>e, <1>m, <1>d, <3>1 DEF Inv, TypeOK
  <2>2. sp' \in [Carriers -> Addresses] /\ tstack' \in [Stacks -> Addresses]
    <3>1. Address(d, frames[d]) \in Addresses /\ Address(s, frames[s]) \in Addresses
      BY <1>m, <1>d DEF Inv, TypeOK, Address, Addresses
    <3> QED
      BY <1>e, <1>m, <3>1 DEF Inv, TypeOK
  <2>3. frames' \in [Stacks -> Nat]
    BY <1>e, <1>m DEF Inv, TypeOK
  <2> QED
    BY <1>1, <2>1, <2>2, <2>3 DEF Inv, TypeOK
<1>4. Placed'
  <2>1. ASSUME NEW u \in Carriers
        PROVE  sp'[u] = Address(On(u)', frames'[On(u)'])
    <3>1. CASE u = t
      BY <1>fr, <1>d, <1>sp, <1>on, <3>1
    <3>2. CASE u # t
      <4>1. sp[u] = Address(On(u), frames[On(u)])
        BY Here
      <4>2. On(u)' = On(u) /\ frames'[On(u)] = frames[On(u)] /\ sp'[u] = sp[u]
        BY <1>fr, <1>sp, <1>on, <3>2
      <4> QED
        BY <4>1, <4>2
    <3> QED
      BY <3>1, <3>2
  <2>2. ASSUME NEW u \in Carriers, NEW v \in Carriers, u # v
        PROVE  On(u)' # On(v)'
    BY <1>on, <2>2, Here
  <2>3. ASSUME NEW r \in Stacks
        PROVE  at'[r] \in Active <=> \E u \in Carriers : On(u)' = r
    <3>1. CASE r = s
      BY <1>p, <1>d, <1>on, <3>1
    <3>2. CASE r = d
      BY <1>p, <1>on, <3>2
    <3>3. CASE r # s /\ r # d
      BY <1>2, <1>a, <1>on, <3>3 DEF Inv, Placed
    <3> QED
      BY <3>1, <3>2, <3>3
  <2>4. ASSUME NEW u \in Carriers
        PROVE  at'[u] \in {"run", "in away"} \cup Calling
    <3>1. u \in Stacks /\ u # s /\ at[u] \in {"run", "in away"} \cup Calling
      BY <1>m, Names DEF Inv, Placed
    <3> QED
      BY <1>2, <1>p, <3>1
  <2> QED
    BY <2>1, <2>2, <2>3, <2>4 DEF Placed
<1>5. Carried'
  <2>0. Carried
    BY DEF Inv
  <2>1. ASSUME NEW u \in Carriers
        PROVE
          /\ curr'[u] = IF at'[On(u)'] \in {"in pushed", "in back"} THEN callee'[On(u)'] ELSE On(u)'
          /\ u \in switching' <=> at'[On(u)'] \in Locking
          /\ smThis'[u] = IF at'[On(u)'] \in Calling THEN callee'[On(u)'] ELSE Self(On(u)')
    <3>1. CASE u = t
      BY <1>1, <1>2, <1>d, <1>f, <1>p, <1>on, <3>1
    <3>2. CASE u # t
      <4>1. On(u)' = On(u) /\ at'[On(u)] = at[On(u)]
        BY <1>2, <1>on, <3>2
      <4> QED
        BY <1>1, <2>0, <4>1 DEF Carried
    <3> QED
      BY <3>1, <3>2
  <2> QED
    BY <2>1 DEF Carried
<1>6. Exceptions'
  BY <1>1 DEF Inv, Exceptions
<1>7. Calls'
  <2>0. Calls
    BY DEF Inv
  <2>1. ASSUME NEW r \in Stacks
        PROVE  callee'[r] # NoFiber <=> at'[r] \in Calling \cup {"in away"}
    <3>1. CASE r = s
      BY <1>1, <1>m, <1>p, <3>1
    <3>2. CASE r = d
      BY <1>1, <1>d, <1>p, <3>2
    <3>3. CASE r # s /\ r # d
      BY <1>1, <1>2, <2>0, <3>3 DEF Calls
    <3> QED
      BY <3>1, <3>2, <3>3
  <2>2. \A r, x \in Stacks : callee'[x] # NoFiber /\ callee'[x] = callee'[r] => x = r
    BY <1>1, <2>0 DEF Calls
  <2>3. ASSUME NEW r \in Stacks
        PROVE  /\ at'[r] \in Before => at'[callee'[r]] \in {"new", "out away"}
               /\ at'[r] \in After => at'[callee'[r]] \in {"ended", "out away"}
               /\ at'[r] = "in away" => at'[callee'[r]] \in Active \cup {"in away"}
               /\ at'[r] \in {"in pushed", "in away", "in back"} => within'[callee'[r]] = r
    <3>1. CASE r = s
      <4>1. at'[r] \notin Before \cup After \cup {"in pushed", "in away", "in back"}
        BY <1>p, <1>2, <3>1 DEF Calling
      <4> QED
        BY <4>1
    <3>2. CASE r = d
      <4>1. at'[r] \notin Before /\ at'[r] # "in away"
        BY <1>p, <3>2
      <4> QED
        BY <1>1, <1>d, <1>p, <3>2, <4>1
    <3>3. CASE r # s /\ r # d
      <4>1. at'[r] = at[r] /\ callee'[r] = callee[r] /\ callee[r] # s
        BY <1>1, <1>2, <1>o, <3>3
      <4>2. /\ at[r] \in Before => at[callee[r]] \in {"new", "out away"}
            /\ at[r] \in After => at[callee[r]] \in {"ended", "out away"}
            /\ at[r] = "in away" => at[callee[r]] \in Active \cup {"in away"}
            /\ at[r] \in {"in pushed", "in away", "in back"} => within[callee[r]] = r
        BY <2>0 DEF Calls
      <4>3. CASE at[r] \in Calling \cup {"in away"}
        <5>1. callee[r] \in Stacks
          BY <4>3, Facts
        <5>2. CASE callee[r] = d
          BY <1>1, <1>d, <1>p, <4>1, <4>2, <5>2
        <5>3. CASE callee[r] # d
          BY <1>1, <1>2, <4>1, <4>2, <5>1, <5>3
        <5> QED
          BY <5>2, <5>3
      <4>4. CASE at[r] \notin Calling \cup {"in away"}
        BY <4>1, <4>4 DEF Calling, Before, After
      <4> QED
        BY <4>3, <4>4
    <3> QED
      BY <3>1, <3>2, <3>3
  <2>4. ASSUME NEW x \in Fibers, at'[x] \in Active \cup {"in away"}
        PROVE  \E r \in Stacks : callee'[r] = x
    <3>1. x \in Stacks /\ x # s
      BY <1>p, <2>4, Names
    <3>2. at[x] \in Active \cup {"in away"}
      BY <1>2, <1>d, <2>4, <3>1
    <3> QED
      BY <1>1, <2>0, <3>2 DEF Calls, Called
  <2> QED
    BY <2>1, <2>2, <2>3, <2>4 DEF Calls, Called
<1>8. LocalsFit'
  <2>0. LocalsFit
    BY DEF Inv
  <2>1. ASSUME NEW r \in Stacks, at'[r] \in Calling \cup Leaving \cup Returning \cup {"in away", "out away"}
        PROVE  locals'[r] \in Locals /\ locals'[r].cur = Self(r) /\ locals'[r].oldp = r
    <3>1. at[r] \in Calling \cup Leaving \cup Returning \cup {"in away", "out away"}
      <4>1. CASE r = s
        BY <1>m, <4>1
      <4>2. CASE r = d
        BY <1>d, <4>2
      <4>3. CASE r # s /\ r # d
        BY <1>2, <2>1, <4>3
      <4> QED
        BY <4>1, <4>2, <4>3
    <3> QED
      BY <1>1, <2>0, <3>1 DEF LocalsFit
  <2>2. ASSUME NEW u \in Carriers, at'[On(u)'] \in Calling \cup Leaving \cup {"out unlocked"}
        PROVE  locals'[On(u)'].tobj = u
    <3>1. CASE u = t
      BY <1>1, <1>d, <1>on, <3>1
    <3>2. CASE u # t
      <4>1. On(u)' = On(u) /\ at'[On(u)] = at[On(u)]
        BY <1>2, <1>on, <3>2
      <4>2. at[On(u)] \in Calling \cup Leaving \cup {"out unlocked"} => locals[On(u)].tobj = u
        BY <2>0 DEF LocalsFit
      <4> QED
        BY <1>1, <2>2, <4>1, <4>2
    <3> QED
      BY <3>1, <3>2
  <2>3. ASSUME NEW r \in Stacks, at'[r] \in Calling \cup {"in away"}, r # d
        PROVE  /\ r # s /\ at'[r] = at[r] /\ callee'[r] = callee[r] /\ locals'[r] = locals[r]
               /\ callee[r] \in Stacks /\ callee[r] # s /\ frames'[r] = frames[r]
    <3>1. r # s
      BY <1>p, <2>3
    <3>2. at'[r] = at[r]
      BY <1>2, <2>3, <3>1
    <3> QED
      BY <1>1, <1>o, <1>fr, <2>3, <3>1, <3>2, Facts
  <2>4. ASSUME NEW r \in Stacks, at'[r] \in Calling \cup {"in away"}, at'[callee'[r]] \in Leaving
        PROVE  locals'[callee'[r]].newp = Address(r, frames'[r])
    <3>1. callee[r] # d /\ callee[r] # s
      BY <1>1, <1>p, <2>4
    <3>2. r # d
      BY <1>d, <3>1
    <3>3. at[r] \in Calling \cup {"in away"} /\ at[callee[r]] \in Leaving
      BY <1>1, <1>2, <2>3, <2>4, <3>1, <3>2
    <3>4. locals[callee[r]].newp = Address(r, frames[r])
      BY <2>0, <3>3 DEF LocalsFit
    <3> QED
      BY <1>1, <2>3, <2>4, <3>2, <3>4
  <2>5. ASSUME NEW r \in Stacks, at'[r] \in Before
        PROVE  locals'[r].newp = Address(callee'[r], frames'[callee'[r]])
    <3>1. r # d
      BY <1>p, <2>5
    <3>2. at[r] \in Before /\ callee[r] \in Stacks /\ callee[r] # s
      BY <2>3, <2>5, <3>1 DEF Calling
    <3>3. locals[r].newp = Address(callee[r], frames[callee[r]])
      BY <2>0, <3>2 DEF LocalsFit
    <3> QED
      BY <1>1, <1>fr, <3>2, <3>3
  <2>6. ASSUME NEW r \in Stacks, at'[r] = "in away", NEW u \in Carriers, On(u)' = callee'[r]
        PROVE  locals'[r].tobj = u
    <3>1. r # d
      BY <1>p, <2>6
    <3>2. at[r] = "in away" /\ locals'[r] = locals[r] /\ callee'[r] = callee[r]
      BY <2>3, <2>6, <3>1
    <3>3. CASE u = t
      <4>1. callee[r] = d
        BY <1>on, <2>6, <3>2, <3>3
      <4>2. locals[d].tobj = locals[r].tobj
        BY <1>d, <2>0, <3>2, <4>1 DEF LocalsFit
      <4> QED
        BY <1>d, <3>2, <3>3, <4>2
    <3>4. CASE u # t
      <4>1. On(u) = callee[r]
        BY <1>on, <2>6, <3>2, <3>4
      <4> QED
        BY <2>0, <3>2, <4>1 DEF LocalsFit
    <3> QED
      BY <3>3, <3>4
  <2>7. ASSUME NEW r \in Stacks, at'[r] = "in away", at'[callee'[r]] = "in away"
        PROVE  locals'[callee'[r]].tobj = locals'[r].tobj
    <3>1. callee[r] # d /\ r # d
      BY <1>1, <1>p, <2>7
    <3>2. at[r] = "in away" /\ callee[r] \in Stacks /\ callee[r] # s
      BY <2>3, <2>7, <3>1
    <3>3. at[callee[r]] = "in away"
      BY <1>1, <1>2, <2>7, <3>1, <3>2
    <3> QED
      BY <1>1, <2>0, <3>2, <3>3 DEF LocalsFit
  <2> QED
    BY <2>1, <2>2, <2>4, <2>5, <2>6, <2>7 DEF LocalsFit
<1>9. States'
  <2>0. States
    BY DEF Inv
  <2>1. ASSUME NEW f \in Fibers
        PROVE
    /\ at'[f] \in {"run", "in away"} \cup Calling => state'[f] = "EXEC"
    /\ at'[f] \in {"new", "entry", "entered", "out away"} \cup Returning => state'[f] = "HOLD"
    /\ at'[f] \in Leaving => state'[f] \in {"HOLD", "TERM"}
    /\ at'[f] \in {"ended", "unmapped"} => state'[f] = "TERM"
    <3>1. f \in Stacks
      BY Names
    <3>2. CASE f = s
      <4>1. state[s] \in {"HOLD", "TERM"}
        BY <1>m, <2>0 DEF States
      <4> QED
        BY <1>1, <1>2, <1>p, <3>2, <4>1
    <3>3. CASE f = d
      <4>1. state[f] = "EXEC"
        BY <1>d, <2>0, <3>3 DEF States
      <4> QED
        BY <1>1, <1>2, <1>p, <3>3, <4>1
    <3>4. CASE f # s /\ f # d
      BY <1>1, <1>2, <2>0, <3>1, <3>4 DEF States
    <3> QED
      BY <3>2, <3>3, <3>4
  <2> QED
    BY <2>1 DEF States
<1>10. Tops'
  <2>0. Tops
    BY DEF Inv
  <2>1. ASSUME NEW r \in Stacks
        PROVE
       /\ tstack'[r].stack = r
       /\ at'[r] \in {"in away", "out away", "new", "in back", "in popped", "out back", "entry"} =>
            tstack'[r] = Address(r, frames'[r])
       /\ at'[r] \in {"unmapped", "new", "ended", "entry", "entered"} <=> frames'[r] = 0
       /\ at'[r] = "unmapped" \/ (at'[r] = "ended" /\ ~Called(r)') => tstack'[r] = Bottom(r)
    <3>1. CASE r = s
      <4>1. Address(s, frames[s]).stack = s
        BY DEF Address
      <4>2. frames[s] # 0
        BY <1>m, <2>0 DEF Tops
      <4>3. Called(s)'
        BY <1>1, <1>d DEF Called
      <4> QED
        BY <1>2, <1>fr, <1>tstack, <3>1, <4>1, <4>2, <4>3
    <3>2. CASE r = d
      <4>1. tstack[d].stack = d /\ tstack[d] = Address(d, frames[d]) /\ frames[d] # 0
        BY <1>b, <1>d, <2>0 DEF Tops
      <4> QED
        BY <1>2, <1>d, <1>fr, <1>tstack, <3>2, <4>1
    <3>3. CASE r # s /\ r # d
      <4>1. at'[r] = at[r] /\ frames'[r] = frames[r] /\ tstack'[r] = tstack[r]
        BY <1>2, <1>fr, <1>tstack, <3>3
      <4>2. Called(r)' <=> Called(r)
        BY <1>c, <3>3
      <4>3. /\ tstack[r].stack = r
            /\ at[r] \in {"in away", "out away", "new", "in back", "in popped", "out back", "entry"} =>
                 tstack[r] = Address(r, frames[r])
            /\ at[r] \in {"unmapped", "new", "ended", "entry", "entered"} <=> frames[r] = 0
            /\ at[r] = "unmapped" \/ (at[r] = "ended" /\ ~Called(r)) => tstack[r] = Bottom(r)
        BY <2>0 DEF Tops
      <4> QED
        BY ONLY <4>1, <4>2, <4>3
    <3> QED
      BY <3>1, <3>2, <3>3
  <2>2. ASSUME NEW u \in halted' \cup {stopper'}, u \in Carriers \ switching'
        PROVE  tstack'[On(u)'] = sp'[u]
    <3>1. u # t /\ u \in halted \cup {stopper} /\ u \in Carriers \ switching
      BY <1>1, <2>2
    <3>2. On(u)' = On(u) /\ sp'[u] = sp[u] /\ tstack'[On(u)] = tstack[On(u)]
      BY <1>on, <1>sp, <1>tstack, <3>1
    <3> QED
      BY <2>0, <3>1, <3>2 DEF Tops
  <2> QED
    BY <2>1, <2>2 DEF Tops
<1>11. Kept'
  <2>0. Kept
    BY DEF Inv
  <2>1. ASSUME NEW f \in Fibers
        PROVE  f \in listed' <=> at'[f] # "unmapped"
    <3>1. f \in Stacks /\ (f \in listed <=> at[f] # "unmapped")
      BY <2>0, Names DEF Kept
    <3> QED
      BY <1>1, <1>2, <1>m, <1>d, <3>1
  <2>2. ASSUME NEW f \in condemned'
        PROVE  f \notin held' /\ ~Called(f)' /\ at'[f] \in {"new", "ended"}
    <3>1. f \in Stacks /\ f \notin held /\ ~Called(f) /\ at[f] \in {"new", "ended"}
      BY <1>1, <2>0, <2>2, Facts DEF Kept
    <3>2. f # d /\ f # s
      BY <1>m, <1>d, <3>1
    <3> QED
      BY <1>1, <1>2, <1>c, <3>1, <3>2
  <2>3. stopper' # NoFiber => at'[On(stopper)'] = "run" /\ stopper' \notin halted'
    <3>1. SUFFICES ASSUME stopper # NoFiber
                   PROVE  at'[On(stopper)'] = "run" /\ stopper \notin halted
      BY <1>1
    <3>2. PICK u \in Carriers : u = stopper /\ u # t /\ at[On(u)] = "run" /\ u \notin halted
      BY <1>1, <2>0, <3>1, Facts DEF Kept
    <3>3. On(u)' = On(u) /\ at'[On(u)] = "run"
      BY <1>2, <1>on, <3>2
    <3> QED
      BY <1>1, <3>2, <3>3
  <2> QED
    BY <1>1, <2>0, <2>1, <2>2, <2>3 DEF Kept
<1> QED
  BY <1>3, <1>4, <1>5, <1>6, <1>7, <1>8, <1>9, <1>10, <1>11 DEF Inv

\* Every step of the program, of a switch and of a collection.
LEMMA InvNext ==
  ASSUME Inv, [FiberNext]_fvars
  PROVE  Inv'
<1>1. CASE UNCHANGED fvars
  BY <1>1, InvDrop DEF fvars
<1>2. ASSUME NEW t \in Carriers, Program(t)
      PROVE  Inv'
  <2>1. ASSUME Push(t) \/ Pop(t)
        PROVE  Inv'
    BY <2>1, InvPushPop
  <2>2. ASSUME NEW f \in Fibers, Create(t, f) \/ Reset(t, f) \/ CallBegin(t, f)
        PROVE  Inv'
    BY <2>2, InvCreate, InvReset, InvCallBegin
  <2>3. CASE Yield(t)
    <3>1. at[On(t)] = "run" /\ smThis[t] # NoFiber
      BY <2>3 DEF Yield, LeaveBegin, At
    <3>2. On(t) \in Fibers /\ smThis[t] = On(t)
      <4>1. at[On(t)] \notin Calling
        BY <3>1 DEF Calling, Before, After
      <4>2. smThis[t] = Self(On(t))
        BY <4>1, There
      <4> QED
        BY <3>1, <4>2 DEF Self
    <3>3. LeaveBegin(t, On(t), "HOLD")
      BY <2>3, <3>2 DEF Yield
    <3> QED
      BY <3>2, <3>3, InvLeaveBegin
  <2>4. CASE Finish(t)
    BY <2>4, InvLeaveBegin DEF Finish
  <2> QED
    BY <1>2, <2>1, <2>2, <2>3, <2>4 DEF Program
<1>3. ASSUME NEW t \in Carriers, Switching(t)
      PROVE  Inv'
  <2>1. CASE Switch(t)
    <3>1. at[On(t)] \in {"in pushed", "out locked"}
      BY <2>1 DEF Switch, Jump, At
    <3> QED
      BY <2>1, <3>1, InvSwitchIn, InvSwitchOut
  <2>2. ASSUME SetLock(t) \/ PushContext(t) \/ PopContext(t) \/ CallUnlock(t) \/ CallEnd(t)
        PROVE  Inv'
    BY <2>2, InvSetLock, InvPushContext, InvPopContext, InvCallUnlock, InvCallEnd
  <2>3. ASSUME YieldUnlock(t) \/ YieldEnd(t) \/ EntryUnlock(t) \/ EntryRun(t)
        PROVE  Inv'
    BY <2>3, InvYieldUnlock, InvYieldEnd, InvEntryUnlock, InvEntryRun
  <2> QED
    BY <1>3, <2>1, <2>2, <2>3 DEF Switching
<1>4. ASSUME NEW t \in Carriers, Collection(t)
      PROVE  Inv'
  BY <1>4, InvStopWorld, InvPreSuspend, InvCollectWorld, InvPostSuspend DEF Collection
<1>5. ASSUME NEW f \in Fibers, Drop(f) \/ FreeStack(f)
      PROVE  Inv'
  <2>1. CASE Drop(f)
    <3>1. held' \subseteq held /\ UNCHANGED <<codeVars, contextVars, threadVars, worldVars, state>>
      BY <2>1 DEF Drop
    <3> QED
      BY <3>1, InvDrop
  <2> QED
    BY <1>5, <2>1, InvFreeStack
<1> QED
  BY <1>1, <1>2, <1>3, <1>4, <1>5 DEF FiberNext

\* All threads start on their own stacks and there are no fibers.
LEMMA InvInit ==
  ASSUME FiberInit
  PROVE  Inv
<1>1. \A t \in Carriers : sp[t] = Address(t, 1) /\ On(t) = t /\ t \in Stacks
  BY Names DEF FiberInit, On, Address
<1>2. /\ \A t \in Carriers : at[t] = "run" /\ frames[t] = 1 /\ curr[t] = t /\ smThis[t] = NoFiber /\ ehSlot[t] = t
      /\ \A f \in Fibers : at[f] = "unmapped" /\ frames[f] = 0 /\ state[f] = "TERM"
      /\ \A s \in Stacks : tstack[s] = Bottom(s) /\ ehContext[s] = s /\ callee[s] = NoFiber
  BY Names DEF FiberInit
<1>3. listed = {} /\ held = {} /\ switching = {} /\ stopper = NoFiber /\ halted = {} /\ condemned = {}
  BY DEF FiberInit
<1>4. /\ \A t \in Carriers : at[t] \in Active /\ at[t] \notin Locking \cup Calling \cup Leaving \cup Returning
      /\ \A f \in Fibers : at[f] \notin Active \cup Locking \cup Calling \cup Leaving \cup Returning
  BY <1>2 DEF Active, Locking, Calling, Before, After, Leaving, Returning
<1>5. \A s \in Stacks : Called(s) <=> FALSE
  BY <1>2, Names DEF Called
<1>6. TypeOK
  <2>1. sp \in [Carriers -> Addresses] /\ tstack \in [Stacks -> Addresses]
    BY Names DEF FiberInit, Addresses, Address, Bottom
  <2>2. at \in [Stacks -> FiberPlaces]
    BY DEF FiberInit, FiberPlaces, Active
  <2>3. frames \in [Stacks -> Nat] /\ within \in [Stacks -> Stacks \cup {NoFiber}] /\ ehContext \in [Stacks -> Stacks]
        /\ callee \in [Stacks -> Fibers \cup {NoFiber}] /\ locals \in [Stacks -> Locals \cup {NoFiber}]
    BY DEF FiberInit
  <2>4. state \in [Fibers -> {"HOLD", "EXEC", "TERM"}] /\ curr \in [Carriers -> Stacks]
        /\ ehSlot \in [Carriers -> Stacks] /\ smThis \in [Carriers -> Fibers \cup {NoFiber}]
    BY Names DEF FiberInit
  <2> QED
    BY <1>3, <2>1, <2>2, <2>3, <2>4 DEF TypeOK
<1>7. Placed
  <2>1. ASSUME NEW s \in Stacks
        PROVE  at[s] \in Active <=> \E t \in Carriers : On(t) = s
    BY <1>1, <1>4, Names
  <2>2. \A t \in Carriers : sp[t] = Address(On(t), frames[On(t)])
    BY <1>1, <1>2
  <2>3. \A t, u \in Carriers : t # u => On(t) # On(u)
    BY <1>1
  <2> QED
    BY <1>2, <2>1, <2>2, <2>3 DEF Placed
<1>8. Carried /\ Exceptions
  <2>1. ASSUME NEW t \in Carriers
        PROVE  /\ On(t) = t /\ at[t] = "run" /\ curr[t] = t /\ smThis[t] = NoFiber /\ ehSlot[t] = t
               /\ t \notin switching /\ at[t] \notin Locking \cup Calling /\ t \notin Fibers
    BY <1>1, <1>2, <1>3, <1>4, Names
  <2>2. Carried
    BY ONLY <2>1 DEF Carried, Self
  <2>3. Exceptions
    BY ONLY <2>1, <1>2 DEF Exceptions
  <2> QED
    BY <2>2, <2>3
<1>9. Calls
  <2>1. \A s \in Stacks : at[s] \notin Calling \cup {"in away", "in pushed", "in back"}
    BY <1>2, <1>4, Names
  <2>2. \A f \in Fibers : at[f] \notin Active \cup {"in away"}
    BY <1>2, <1>4
  <2> QED
    BY <1>2, <2>1, <2>2 DEF Calls, Calling
<1>10. LocalsFit
  <2>1. \A s \in Stacks : at[s] \notin Calling \cup Leaving \cup Returning \cup {"in away", "out away", "out unlocked"}
    BY <1>2, <1>4, Names
  <2> QED
    BY <1>1, <2>1 DEF LocalsFit, Calling
<1>11. States
  BY <1>2, <1>4 DEF States
<1>12. Tops
  <2>1. ASSUME NEW s \in Stacks
        PROVE  /\ tstack[s].stack = s /\ tstack[s] = Bottom(s)
               /\ at[s] = "unmapped" => frames[s] = 0
               /\ at[s] \in {"unmapped", "run"}
               /\ at[s] \in {"unmapped", "new", "ended", "entry", "entered"} <=> frames[s] = 0
    BY <1>2, Names DEF Bottom, Address
  <2> QED
    BY <1>3, <2>1, Names DEF Tops
<1>13. Kept
  BY <1>2, <1>3 DEF Kept
<1> QED
  BY <1>6, <1>7, <1>8, <1>9, <1>10, <1>11, <1>12, <1>13 DEF Inv

\* Every thread is on one stack with the context, the exceptions and the
\* fiber that belong to it, callers wait for the fiber they called, and what
\* a switch will restore was saved.
THEOREM Consistent == FiberSpec => []Inv
<1>1. FiberInit => Inv
  BY InvInit
<1>2. Inv /\ [FiberNext]_fvars => Inv'
  BY InvNext
<1> QED
  BY <1>1, <1>2, PTL DEF FiberSpec

\* What a fiber finds when it goes on, in whatever thread, is what it left:
\* its context, its exceptions and its caller.
THEOREM StateStays == FiberSpec => []StateKept
<1>1. ASSUME Inv
      PROVE  StateKept
  <2>1. ASSUME NEW t \in Carriers, at[On(t)] = "run"
        PROVE  /\ curr[t] = On(t) /\ t \notin switching /\ ehSlot[t] = On(t)
               /\ sp[t] = Address(On(t), frames[On(t)]) /\ smThis[t] = Self(On(t))
    <3>1. at[On(t)] \notin Calling \cup Locking \cup {"in pushed", "in back"}
      BY <2>1 DEF Calling, Before, After, Locking
    <3> QED
      BY <1>1, <3>1, Here, There
  <2>2. \A t, u \in Carriers : t # u => On(t) # On(u)
    BY <1>1, Here
  <2>3. ASSUME NEW s \in Stacks, at[s] = "in away"
        PROVE  /\ within[callee[s]] = s
               /\ at[callee[s]] = "in away" => locals[callee[s]].tobj = locals[s].tobj
               /\ \A t \in Carriers : On(t) = callee[s] => locals[s].tobj = t
    BY <1>1, <2>3 DEF Inv, Calls, LocalsFit
  <2>4. \A s \in Stacks : ehContext[s] = s
    BY <1>1 DEF Inv, Exceptions
  <2> QED
    BY <2>1, <2>2, <2>3, <2>4 DEF StateKept, ContextsNested, ExceptionsStay, Self
<1> QED
  BY <1>1, Consistent, PTL

\* A collection finds a fiber exactly while the program refers to it, it is
\* being called, or there is something on its stack.
THEOREM OnlyEndedFinalized == FiberSpec => []FinalizesEnded
<1>1. Inv => FinalizesEnded
  BY FoundExactly, Facts DEF FinalizesEnded
<1> QED
  BY <1>1, Consistent, PTL

-----------------------------------------------------------------------------
\* The places between the store of the stack top and fiber_switchContext.
Departing == {"in saved", "in locked", "in pushed", "out saved", "out locked"}

\* A stack top that was stored is kept or taken back.
TopsStored ==
  \A s \in Stacks : at[s] \in Departing => tstack[s] \in {Bottom(s), Address(s, frames[s])}

\* A step that leaves the stored tops of all stacks but s alone.
LEMMA StoredBut ==
  ASSUME TopsStored, NEW s,
         at'[s] \notin Departing \/ tstack'[s] \in {Bottom(s), Address(s, frames'[s])},
         \A r \in Stacks : r # s /\ at'[r] \in Departing =>
           at'[r] = at[r] /\ tstack'[r] = tstack[r] /\ frames'[r] = frames[r]
  PROVE  TopsStored'
BY DEF TopsStored, Bottom

\* Nothing but the end of a suspension changes a stack top that was stored.
LEMMA TopsStoredNext ==
  ASSUME Inv, TopsStored, [FiberNext]_fvars
  PROVE  TopsStored'
<1>0. TypeOK
  BY DEF Inv
<1>1. CASE UNCHANGED fvars \/ \E f \in Fibers : Drop(f)
  <2>1. UNCHANGED <<at, tstack, frames>>
    BY <1>1 DEF fvars, codeVars, contextVars, Drop
  <2> QED
    BY <2>1 DEF TopsStored, Bottom
<1>2. ASSUME NEW t \in Carriers, Push(t) \/ Pop(t) \/ Finish(t) \/ Yield(t)
      PROVE  TopsStored'
  <2>1. PICK s \in Stacks : s = On(t) /\ at[s] = "run" /\ sp[t] = Address(s, frames[s])
    BY <1>2, Here DEF Push, Pop, Finish, Yield, LeaveBegin, At
  <2>2. CASE Push(t) \/ Pop(t)
    <3>1. UNCHANGED <<at, tstack>> /\ \A r \in Stacks : r # s => frames'[r] = frames[r]
      BY <1>0, <2>1, <2>2 DEF Push, Pop, contextVars, TypeOK
    <3>2. at'[s] \notin Departing
      BY <2>1, <3>1 DEF Departing
    <3> QED
      BY <3>1, <3>2, StoredBut
  <2>3. CASE Finish(t) \/ Yield(t)
    <3>1. LeaveBegin(t, s, "HOLD") \/ LeaveBegin(t, s, "TERM")
      <4>1. at[s] \notin Calling
        BY <2>1 DEF Calling, Before, After
      <4>2. smThis[t] = Self(s)
        BY <2>1, <4>1, There
      <4> QED
        BY <2>1, <2>3, <4>2 DEF Yield, Finish, LeaveBegin, Self
    <3>2. frames' = frames /\ tstack'[s] = Address(s, frames[s])
          /\ \A r \in Stacks : r # s => at'[r] = at[r] /\ tstack'[r] = tstack[r]
      BY <1>0, <2>1, <3>1 DEF LeaveBegin, Goto, TypeOK
    <3> QED
      BY <3>2, StoredBut
  <2> QED
    BY <1>2, <2>2, <2>3
<1>3. ASSUME NEW t \in Carriers, NEW f \in Fibers, Create(t, f) \/ Reset(t, f)
      PROVE  TopsStored'
  <2>1. /\ at'[f] = "new"
        /\ \A r \in Stacks : r # f => at'[r] = at[r] /\ tstack'[r] = tstack[r] /\ frames'[r] = frames[r]
    BY <1>0, <1>3, Names DEF Create, Reset, Goto, TypeOK
  <2>2. at'[f] \notin Departing
    BY <2>1 DEF Departing
  <2> QED
    BY <2>1, <2>2, StoredBut
<1>4. ASSUME NEW t \in Carriers, NEW f \in Fibers, CallBegin(t, f)
      PROVE  TopsStored'
  <2>1. PICK s \in Stacks : s = On(t) /\ at[s] = "run" /\ sp[t] = Address(s, frames[s])
    BY <1>4, Here DEF CallBegin, At
  <2>2. curr[t] = s
    BY <2>1, There
  <2>3. frames' = frames /\ tstack'[s] = Address(s, frames[s])
        /\ \A r \in Stacks : r # s => at'[r] = at[r] /\ tstack'[r] = tstack[r]
    BY <1>0, <1>4, <2>1, <2>2 DEF CallBegin, Goto, TypeOK
  <2> QED
    BY <2>3, StoredBut
<1>5. ASSUME NEW t \in Carriers,
             SetLock(t) \/ PushContext(t) \/ PopContext(t) \/ CallUnlock(t) \/ YieldUnlock(t) \/ EntryUnlock(t)
      PROVE  TopsStored'
  <2>1. PICK s \in Stacks : s = On(t)
    BY Here
  <2>2. UNCHANGED <<tstack, frames>> /\ \A r \in Stacks : r # s => at'[r] = at[r]
    BY <1>0, <1>5, <2>1
    DEF SetLock, PushContext, PopContext, CallUnlock, YieldUnlock, EntryUnlock, Goto, contextVars, TypeOK
  <2>3. at'[s] \in Departing => at[s] \in Departing
    BY <1>0, <1>5, <2>1
    DEF SetLock, PushContext, PopContext, CallUnlock, YieldUnlock, EntryUnlock, Goto, At, Departing, TypeOK
  <2>4. at'[s] \notin Departing \/ tstack'[s] \in {Bottom(s), Address(s, frames'[s])}
    BY <2>1, <2>2, <2>3 DEF TopsStored
  <2> QED
    BY <2>2, <2>4, StoredBut
<1>6. ASSUME NEW t \in Carriers, Switch(t)
      PROVE  TopsStored'
  <2>1. PICK s \in Stacks : s = On(t) /\ at[s] \in {"in pushed", "out locked"}
    BY <1>6, Here DEF Switch, Jump, At
  <2>2. PICK d \in Stacks : d # s /\ at[d] \notin Active /\ locals[s].newp = Address(d, frames[d])
                            /\ at[d] \in {"new", "in away", "out away"}
    <3>1. CASE at[s] = "in pushed"
      <4>1. at[s] \in Before /\ at[s] \in Calling
        BY <3>1 DEF Before, Calling
      <4>2. callee[s] \in Stacks /\ callee[s] # s
        BY <2>1, <4>1, There
      <4>3. at[callee[s]] \in {"new", "out away"} /\ locals[s].newp = Address(callee[s], frames[callee[s]])
        BY <2>1, <4>1 DEF Inv, Calls, LocalsFit
      <4>4. at[callee[s]] \notin Active
        BY <4>3 DEF Active, Calling, Before, After, Leaving, Returning
      <4> QED
        BY <4>2, <4>3, <4>4
    <3>2. CASE at[s] = "out locked"
      <4>1. at[s] \in Leaving /\ at[s] \in Active
        BY <3>2 DEF Leaving, Active
      <4>2. s \in Fibers
        BY <2>1, <4>1, There
      <4>3. PICK c \in Stacks : callee[c] = s /\ at[c] = "in away"
        BY <4>1, <4>2, Caller
      <4>4. locals[s].newp = Address(c, frames[c])
        BY <4>1, <4>3 DEF Inv, LocalsFit
      <4>5. at[c] \notin Active
        BY <4>3 DEF Active, Calling, Before, After, Leaving, Returning
      <4> QED
        BY <3>2, <4>3, <4>4, <4>5
    <3> QED
      BY <2>1, <3>1, <3>2
  <2>3. JumpedTo(t, s, d)
    BY <1>6, <2>1, <2>2, Jumped
  <2>4. at'[s] \notin Departing /\ at'[d] \notin Departing
    BY <2>1, <2>2, <2>3 DEF JumpedTo, Arrival, Departing
  <2>5. \A r \in Stacks : r # s /\ r # d =>
          at'[r] = at[r] /\ tstack'[r] = tstack[r] /\ frames'[r] = frames[r]
    BY <2>3 DEF JumpedTo
  <2> QED
    BY <2>4, <2>5, StoredBut
<1>7. ASSUME NEW t \in Carriers, CallEnd(t)
      PROVE  TopsStored'
  <2>1. PICK s \in Stacks : s = On(t) /\ at[s] = "in unlocked"
    BY <1>7, Here DEF CallEnd, EndCall, At
  <2>2. at[s] \in Calling /\ at[s] \in After /\ at[s] \notin {"in pushed", "in back"}
    BY <2>1 DEF Calling, After
  <2>3. curr[t] = s /\ locals[s].tobj = t
    BY <2>1, <2>2, There
  <2>4. at[callee[s]] \notin Departing
    BY <2>2 DEF Inv, Calls, Departing
  <2>5. /\ frames' = frames /\ at'[s] = "run"
        /\ \A r \in Stacks : r # s => at'[r] = at[r] /\ (r # callee[s] => tstack'[r] = tstack[r])
    BY <1>0, <1>7, <2>1, <2>3 DEF CallEnd, EndCall, Goto, TypeOK
  <2>6. at'[s] \notin Departing
    BY <2>5 DEF Departing
  <2> QED
    BY <2>4, <2>5, <2>6, StoredBut
<1>8. ASSUME NEW t \in Carriers, YieldEnd(t) \/ EntryRun(t)
      PROVE  TopsStored'
  <2>1. PICK s \in Stacks : s = On(t) /\ at[s] \in {"out unlocked", "entered"}
    BY <1>8, Here DEF YieldEnd, EntryRun, At
  <2>2. at[s] \notin Calling /\ (at[s] = "out unlocked" => at[s] \in Returning)
    BY <2>1 DEF Calling, Before, After, Returning
  <2>3. curr[t] = s /\ smThis[t] = s /\ (at[s] = "out unlocked" => locals[s].tobj = t)
    BY <2>1, <2>2, There DEF Self
  <2>4. /\ at'[s] = "run"
        /\ \A r \in Stacks : r # s => at'[r] = at[r] /\ tstack'[r] = tstack[r] /\ frames'[r] = frames[r]
    <3>1. CASE YieldEnd(t)
      <4>1. at[s] = "out unlocked"
        BY <2>1, <3>1 DEF YieldEnd, At
      <4> QED
        BY <1>0, <2>1, <2>3, <3>1, <4>1 DEF YieldEnd, Goto, TypeOK
    <3>2. CASE EntryRun(t)
      BY <1>0, <2>1, <2>3, <3>2 DEF EntryRun, Goto, TypeOK
    <3> QED
      BY <1>8, <3>1, <3>2
  <2>5. at'[s] \notin Departing
    BY <2>4 DEF Departing
  <2> QED
    BY <2>4, <2>5, StoredBut
<1>9. ASSUME NEW t \in Carriers, Collection(t)
      PROVE  TopsStored'
  <2>1. PICK s \in Stacks : s = On(t) /\ sp[t] = Address(s, frames[s])
    BY Here
  <2>2. UNCHANGED <<at, frames>>
    BY <1>9 DEF Collection, StopWorld, PreSuspend, CollectWorld, PostSuspend, codeVars
  <2>3. CASE t \in switching
    <3>1. tstack' = tstack
      BY <1>9, <2>3 DEF Collection, StopWorld, PreSuspend, CollectWorld, PostSuspend
    <3> QED
      BY <2>2, <3>1 DEF TopsStored, Bottom
  <2>4. CASE t \notin switching
    <3>1. curr[t] = s
      BY <2>1, <2>4, OwnContext
    <3>2. tstack' = [tstack EXCEPT ![s] = sp[t]] \/ tstack' = [tstack EXCEPT ![s] = Bottom(s)]
      BY <1>9, <2>4, <3>1 DEF Collection, StopWorld, PreSuspend, CollectWorld, PostSuspend
    <3>3. /\ tstack'[s] \in {Bottom(s), Address(s, frames[s])}
          /\ \A r \in Stacks : r # s => tstack'[r] = tstack[r]
      BY <1>0, <2>1, <3>2 DEF TypeOK
    <3> QED
      BY <2>2, <3>3, StoredBut
  <2> QED
    BY <2>3, <2>4
<1>10. ASSUME NEW f \in Fibers, FreeStack(f)
      PROVE  TopsStored'
  <2>1. /\ at'[f] = "unmapped"
        /\ \A r \in Stacks : r # f => at'[r] = at[r] /\ tstack'[r] = tstack[r] /\ frames'[r] = frames[r]
    BY <1>0, <1>10, Names DEF FreeStack, Goto, TypeOK
  <2>2. at'[f] \notin Departing
    BY <2>1 DEF Departing
  <2> QED
    BY <2>1, <2>2, StoredBut
<1> QED
  BY <1>1, <1>2, <1>3, <1>4, <1>5, <1>6, <1>7, <1>8, <1>9, <1>10 DEF FiberNext, Program, Switching

\* The collector scans every stack up to its last frame, unless a thread was
\* suspended twice within one switch: that is the only way to miss one.
THEOREM ScansComplete == FiberSpec /\ []SuspendedOnce => []ScanComplete
<1>1. FiberInit => TopsStored
  <2>1. ASSUME FiberInit, NEW s \in Stacks
        PROVE  at[s] \notin Departing
    BY <2>1, Names DEF FiberInit, Departing
  <2> QED
    BY <2>1 DEF TopsStored
<1>2. Inv /\ TopsStored /\ [FiberNext]_fvars => TopsStored'
  BY TopsStoredNext
<1>3. ASSUME Inv, TopsStored, SuspendedOnce
      PROVE  ScanComplete
  <2>1. SUFFICES ASSUME WorldStopped, NEW s \in Stacks
                 PROVE  Scanned(s, frames[s])
    BY DEF ScanComplete
  <2>2. tstack[s].stack = s /\ frames[s] \in Nat
    BY <1>3 DEF Inv, TypeOK, Tops
  <2>3. SUFFICES tstack[s] = Address(s, frames[s]) \/ frames[s] = 0
    <3>1. tstack[s].frames \in Nat
      BY <1>3 DEF Inv, TypeOK, Addresses
    <3> QED
      BY <2>2, <2>3, <3>1 DEF Scanned, Address
  <2>4. CASE at[s] \in {"in away", "out away", "new", "ended", "unmapped", "entry", "entered",
                        "in back", "in popped", "out back"}
    BY <1>3, <2>4 DEF Inv, Tops
  <2>5. ASSUME NEW t \in Carriers, On(t) = s
        PROVE  tstack[s] = Address(s, frames[s]) \/ frames[s] = 0
    <3>1. t \in halted \cup {stopper} /\ sp[t] = Address(s, frames[s])
      BY <1>3, <2>1, <2>5, Here DEF WorldStopped
    <3>2. CASE t \notin switching
      BY <1>3, <2>5, <3>1, <3>2 DEF Inv, Tops
    <3>3. CASE t \in switching
      <4>1. at[s] \in Locking
        BY <1>3, <2>5, <3>3, There
      <4>2. CASE at[s] \in {"in back", "in popped", "out back", "entry"}
        BY <2>4, <4>2
      <4>3. CASE at[s] \in {"in locked", "in pushed", "out locked"}
        <5>1. t # stopper
          <6>1. stopper = t => at[s] = "run"
            BY <1>3, <2>1, <2>5 DEF Inv, Kept, WorldStopped
          <6> QED
            BY <4>3, <6>1
        <5>2. tstack[s] # Bottom(s)
          BY <1>3, <2>5, <3>1, <4>3, <5>1 DEF SuspendedOnce
        <5>3. at[s] \in Departing
          BY <4>3 DEF Departing
        <5> QED
          BY <1>3, <5>2, <5>3 DEF TopsStored
      <4> QED
        BY <4>1, <4>2, <4>3 DEF Locking
    <3> QED
      BY <3>2, <3>3
  <2>6. at[s] \in Active \/ at[s] \in {"in away", "out away", "unmapped", "new", "ended"}
    BY <1>3 DEF Inv, TypeOK, FiberPlaces
  <2>7. at[s] \in Active => \E t \in Carriers : On(t) = s
    BY <1>3 DEF Inv, Placed
  <2> QED
    BY <2>4, <2>5, <2>6, <2>7
<1>4. Inv /\ TopsStored /\ SuspendedOnce => ScanComplete
  BY <1>3
<1> QED
  BY <1>1, <1>2, <1>4, Consistent, PTL DEF FiberSpec

=============================================================================
