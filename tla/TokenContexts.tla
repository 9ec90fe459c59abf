--------------------------- MODULE TokenContexts ---------------------------
(***************************************************************************)
(* How several Contexts of one process share PKCS #11 libraries and the    *)
(* login state of their tokens: openModule, moduleCtx.Close, Configure and *)
(* Context.Close of crypto11.go.                                           *)
(*                                                                         *)
(* A library is initialised once for the whole process, and a token logs   *)
(* the process in, not a Context: what one Context does when it is made,   *)
(* fails to be made or is closed must not reach the others.                *)
(*                                                                         *)
(* Every member of Contexts stands for one call of Configure and the life  *)
(* of the Context it returns.  A *pkcs11.Ctx is named after the call that  *)
(* made it.  The sessions of a pool are represented by one.  That no       *)
(* operation is in flight when Close closes the pool is ContextSessions'   *)
(* AllReturned.                                                            *)
(***************************************************************************)
EXTENDS Naturals, FiniteSets

CONSTANTS
  Contexts,
  Libraries,
  Paths,        \* spellings of library paths
  Abs,          \* filepath.Abs: lexical, in a working directory that stays
  LibraryAt,    \* the library found at a path, through links
  Path,         \* config.Path of each Context
  Tokens,
  Token,        \* the token that each Context's config selects
  LoggingIn,    \* the Contexts without LoginNotSupported
  None

\* The library of a Context.  Links let two absolute paths lead to one.
Lib(c) == LibraryAt[Abs[Path[c]]]

ASSUME FilesAssumption ==
  /\ Abs \in [Paths -> Paths]
  /\ LibraryAt \in [Paths -> Libraries]
  /\ Path \in [Contexts -> Paths]

ASSUME TokenAssumption ==
  /\ Token \in [Contexts -> Tokens]
  /\ \A c, d \in Contexts : Token[c] = Token[d] => Lib(c) = Lib(d)
  /\ LoggingIn \subseteq Contexts
  /\ None \notin Contexts
  /\ IsFiniteSet(Contexts)

VARIABLES
  refCount,     \* moduleReferences: the count of each entry, 0 without one
  refCtx,       \* moduleReferences: the *pkcs11.Ctx of each entry
  initialized,  \* the *pkcs11.Ctx through which each library was initialised
  ctx,          \* instance.ctx, the *pkcs11.Ctx each Context calls through
  sessions,     \* the sessions open on the tokens, by Context and kind
  loggedIn,     \* the tokens the process is logged in to
  drift,        \* errModuleRefCount has been returned
  pc

moduleVars == <<refCount, refCtx, initialized, drift>>
tokenVars == <<sessions, loggedIn>>
vars == <<moduleVars, ctx, tokenVars, pc>>

Goto(c, label) == pc' = [pc EXCEPT ![c] = label]

Init ==
  /\ refCount = [p \in Paths |-> 0]
  /\ refCtx = [p \in Paths |-> None]
  /\ initialized = [l \in Libraries |-> None]
  /\ ctx = [c \in Contexts |-> None]
  /\ sessions = {} /\ loggedIn = {}
  /\ drift = FALSE
  /\ pc = [c \in Contexts |-> "idle"]

----------------------------------------------------------------------------
(* The token.                                                              *)

\* A token stays logged in as long as the process has a session on it.
SessionsLeft(remaining) ==
  /\ sessions' = remaining
  /\ loggedIn' = loggedIn \cap {Token[s[1]] : s \in remaining}

----------------------------------------------------------------------------
(* openModule and moduleCtx.Close, both under moduleReferencesMutex.       *)

Call(c) ==
  /\ pc[c] = "idle" /\ Goto(c, "open")
  /\ UNCHANGED <<moduleVars, ctx, tokenVars>>

\* Defect: the entry is looked up under the path as it was given.
KeyAsGiven(c) == Path[c]

\* The key of a Context's library in moduleReferences: a path, not the library
\* it leads to.
Key(c) == Abs[Path[c]]

ShareModule(c) ==
  /\ pc[c] = "open" /\ Goto(c, "slots")
  /\ refCount[Key(c)] > 0
  /\ refCount' = [refCount EXCEPT ![Key(c)] = @ + 1]
  /\ ctx' = [ctx EXCEPT ![c] = refCtx[Key(c)]]
  /\ UNCHANGED <<refCtx, initialized, drift, tokenVars>>

LoadModule(c) ==
  /\ pc[c] = "open" /\ Goto(c, "slots")
  /\ refCount[Key(c)] = 0 /\ initialized[Lib(c)] = None
  /\ initialized' = [initialized EXCEPT ![Lib(c)] = c]
  /\ refCount' = [refCount EXCEPT ![Key(c)] = 1]
  /\ refCtx' = [refCtx EXCEPT ![Key(c)] = c]
  /\ ctx' = [ctx EXCEPT ![c] = c]
  /\ UNCHANGED <<drift, tokenVars>>

\* Defect: the deferred function is there before openModule is called.
LoadFailsDropping(c) ==
  /\ pc[c] = "open" /\ Goto(c, "drop")
  /\ refCount[Key(c)] = 0
  /\ UNCHANGED <<moduleVars, ctx, tokenVars>>

\* The library cannot be loaded, or C_Initialize fails, as it does when the
\* library is initialised already, under another key.
LoadFails(c) ==
  /\ pc[c] = "open" /\ Goto(c, "done")
  /\ refCount[Key(c)] = 0
  /\ UNCHANGED <<moduleVars, ctx, tokenVars>>

\* Defect: the library is finalised one reference too early.
DropLastButOne(c) ==
  /\ pc[c] = "drop" /\ Goto(c, "done")
  /\ refCtx[Key(c)] = ctx[c] /\ refCount[Key(c)] \in {1, 2}
  /\ initialized' = [initialized EXCEPT ![Lib(c)] = None]
  /\ refCount' = [refCount EXCEPT ![Key(c)] = 0]
  /\ refCtx' = [refCtx EXCEPT ![Key(c)] = None]
  /\ SessionsLeft({s \in sessions : Lib(s[1]) # Lib(c)})
  /\ UNCHANGED <<ctx, drift>>

\* moduleCtx.Close of the last reference finalises and unloads the library;
\* the sessions on its tokens are lost.
DropLast(c) ==
  /\ pc[c] = "drop" /\ Goto(c, "done")
  /\ refCtx[Key(c)] = ctx[c] /\ refCount[Key(c)] = 1
  /\ initialized' = [initialized EXCEPT ![Lib(c)] = None]
  /\ refCount' = [refCount EXCEPT ![Key(c)] = 0]
  /\ refCtx' = [refCtx EXCEPT ![Key(c)] = None]
  /\ SessionsLeft({s \in sessions : Lib(s[1]) # Lib(c)})
  /\ UNCHANGED <<ctx, drift>>

\* errModuleRefCount.
Drifted(c) == refCtx[Key(c)] # ctx[c] \/ refCount[Key(c)] = 0

\* moduleCtx.Close of any other reference, or of one that is not there.
DropShared(c) ==
  /\ pc[c] = "drop" /\ Goto(c, "done")
  /\ Drifted(c) \/ refCount[Key(c)] > 1
  /\ refCount' = IF Drifted(c) THEN refCount ELSE [refCount EXCEPT ![Key(c)] = @ - 1]
  /\ drift' = (drift \/ Drifted(c))
  /\ UNCHANGED <<refCtx, initialized, ctx, tokenVars>>

----------------------------------------------------------------------------
(* The rest of Configure.                                                  *)

\* GetSlotList, findToken, effectiveMaxSessions and NewResourcePool.
FindToken(c) ==
  /\ pc[c] = "slots" /\ Goto(c, "session")
  /\ UNCHANGED <<moduleVars, ctx, tokenVars>>

\* One of them fails.  Configure drops the module and returns the error.
FindTokenFails(c) ==
  /\ pc[c] = "slots" /\ Goto(c, "drop")
  /\ UNCHANGED <<moduleVars, ctx, tokenVars>>

OpenPersistent(c) ==
  /\ pc[c] = "session" /\ Goto(c, IF c \in LoggingIn THEN "login" ELSE "ready")
  /\ sessions' = sessions \cup {<<c, "persistent">>}
  /\ UNCHANGED <<moduleVars, ctx, loggedIn>>

OpenPersistentFails(c) ==
  /\ pc[c] = "session" /\ Goto(c, "drop")
  /\ UNCHANGED <<moduleVars, ctx, tokenVars>>

\* C_Login succeeds, or fails because the process is logged in already.
Login(c) ==
  /\ pc[c] = "login" /\ Goto(c, "ready")
  /\ loggedIn' = loggedIn \cup {Token[c]}
  /\ UNCHANGED <<moduleVars, ctx, sessions>>

\* Defect: the deferred function only drops the module.
LoginFailsUnclosed(c) ==
  /\ pc[c] = "login" /\ Goto(c, "drop")
  /\ UNCHANGED <<moduleVars, ctx, tokenVars>>

\* PinFunc or C_Login fails: the deferred function closes the persistent
\* session, and the pool, which has not opened one.
LoginFails(c) ==
  /\ pc[c] = "login" /\ Goto(c, "persistent")
  /\ UNCHANGED <<moduleVars, ctx, tokenVars>>

----------------------------------------------------------------------------
(* The Context at work, and Close.                                         *)

OpenPooled(c) ==
  /\ pc[c] = "ready" /\ <<c, "pooled">> \notin sessions
  /\ sessions' = sessions \cup {<<c, "pooled">>}
  /\ UNCHANGED <<moduleVars, ctx, loggedIn, pc>>

\* A session that failed fatally is closed.
ClosePooled(c) ==
  /\ pc[c] = "ready" /\ <<c, "pooled">> \in sessions
  /\ SessionsLeft(sessions \ {<<c, "pooled">>})
  /\ UNCHANGED <<moduleVars, ctx, pc>>

\* Close closes the sessions of the pool ...
ClosePool(c) ==
  /\ pc[c] = "ready" /\ Goto(c, "persistent")
  /\ SessionsLeft(sessions \ {<<c, "pooled">>})
  /\ UNCHANGED <<moduleVars, ctx>>

\* Defect: the Context logs out before it closes its session.
ClosePersistentLoggingOut(c) ==
  /\ pc[c] = "persistent" /\ Goto(c, "drop")
  /\ sessions' = sessions \ {<<c, "persistent">>}
  /\ loggedIn' = loggedIn \ {Token[c]}
  /\ UNCHANGED <<moduleVars, ctx>>

\* ... and then the persistent one.
ClosePersistent(c) ==
  /\ pc[c] = "persistent" /\ Goto(c, "drop")
  /\ SessionsLeft(sessions \ {<<c, "persistent">>})
  /\ UNCHANGED <<moduleVars, ctx>>

----------------------------------------------------------------------------

OpenModule(c) == ShareModule(c) \/ LoadModule(c) \/ LoadFails(c)
DropModule(c) == DropLast(c) \/ DropShared(c)
Configure(c) ==
  \/ FindToken(c) \/ FindTokenFails(c) \/ OpenPersistent(c) \/ OpenPersistentFails(c)
  \/ Login(c) \/ LoginFails(c)
Work(c) == OpenPooled(c) \/ ClosePooled(c) \/ ClosePool(c) \/ ClosePersistent(c)

Next == \E c \in Contexts : Call(c) \/ OpenModule(c) \/ DropModule(c) \/ Configure(c) \/ Work(c)

Spec == Init /\ [][Next]_vars

----------------------------------------------------------------------------
(* Type invariant.                                                         *)

Labels == {"idle", "open", "slots", "session", "login", "ready", "persistent", "drop", "done"}

TypeOK ==
  /\ refCount \in [Paths -> Nat]
  /\ refCtx \in [Paths -> Contexts \cup {None}]
  /\ initialized \in [Libraries -> Contexts \cup {None}]
  /\ ctx \in [Contexts -> Contexts \cup {None}]
  /\ sessions \in SUBSET (Contexts \X {"persistent", "pooled"})
  /\ loggedIn \in SUBSET Tokens
  /\ drift \in BOOLEAN
  /\ pc \in [Contexts -> Labels]

----------------------------------------------------------------------------
(* Safety.                                                                 *)

\* The Contexts, finished or in the making, that have a reference to a library.
Holding == {"slots", "session", "login", "ready", "persistent", "drop"}
Holders(l) == {c \in Contexts : Lib(c) = l /\ pc[c] \in Holding}

\* No Context ever calls through a *pkcs11.Ctx that was finalised and
\* destroyed when another one was closed, or failed to be made; and the library
\* is finalised with its last Context, however that one ended.
LibraryHeld ==
  \A l \in Libraries :
    /\ initialized[l] = None <=> Holders(l) = {}
    /\ \A c \in Holders(l) : ctx[c] = initialized[l]

\* The reference count agrees with the Contexts holding the library.
NoDrift == ~drift

\* Every session open on a token belongs to a Context that will close it: a
\* Configure that fails leaves none behind, even if others keep the library.
SessionsOwned ==
  /\ \A c \in Contexts :
       <<c, "persistent">> \in sessions <=> pc[c] \in {"login", "ready", "persistent"}
  /\ \A c \in Contexts : <<c, "pooled">> \in sessions => pc[c] = "ready"

\* A Context that needs the login has it, whichever Context it was that logged
\* the process in and whether that one still exists.
LoggedIn == \A c \in LoggingIn : pc[c] = "ready" => Token[c] \in loggedIn

\* Configure is never refused its library because another Context has it
\* initialised, however the two spell its absolute path.  (One that comes to
\* the library by a link is refused.)
NotRefused ==
  [][\A c \in Contexts :
       pc[c] = "open" /\ pc'[c] = "done" =>
         \A d \in Holders(Lib(c)) : Abs[Path[d]] # Abs[Path[c]]]_vars
=============================================================================
