----------------------------- MODULE AccessControl -----------------------------
(***************************************************************************)
(* The users of a shop and their access profiles: the first administrator, *)
(* made by whoever finishes the setup first, the owner that an activated   *)
(* installation binds to its licensed e-mail, and the users and profiles   *)
(* the administrators keep afterwards.                                     *)
(*                                                                         *)
(* Which permissions a profile gives is left out: whoever is active, in a  *)
(* profile that is active, may be the one who asks, so the model has every *)
(* behaviour of the program and some more.  A new password changes nothing *)
(* kept here.                                                              *)
(***************************************************************************)
EXTENDS Integers, FiniteSets

CONSTANTS
  User,
  NoUser,
  Administrator,    \* the protected profile of administrators
  Profile,          \* profiles the shop makes for itself
  MaxSetups,        \* bound: requests of the first setup
  MaxFaultyBinds    \* bound: ends of the process before the owner is bound

VARIABLES
  profileOf,        \* users.profile_id, for the users there are
  activeUsers,      \* users.active
  profiles,         \* profiles the shop has made
  activeProfiles,   \* profiles.active, the default one included
  licensed,         \* requireCommercialActivation of this build
  activated,        \* installation_activation has its row
  owner,            \* its owner_user_id
  mailOf,           \* the user with the e-mail of the license
  setups,           \* requests of the setup that passed their checks and read their body
  asked,            \* requests of the setup ever made
  unbound           \* ends of the process before the owner was bound

people == <<profileOf, activeUsers, mailOf>>
roles == <<profiles, activeProfiles>>
install == <<licensed, activated, owner>>
setupRequests == <<setups, asked, unbound>>
accessVars == <<people, roles, install, setupRequests>>

ASSUME AccessAssumption ==
  /\ Administrator \notin Profile /\ NoUser \notin User
  /\ MaxSetups \in Nat /\ MaxFaultyBinds \in Nat

-----------------------------------------------------------------------------
Users == DOMAIN profileOf
Administrators == {u \in activeUsers : profileOf[u] = Administrator}
MayAsk(actor) == actor \in activeUsers /\ profileOf[actor] \in activeProfiles

\* The value of f at u becomes v, whether f had one or not.
With(f, u, v) == [x \in DOMAIN f \cup {u} |-> IF x = u THEN v ELSE f[x]]

\* The e-mail of u becomes that of the license, or another one; no two users
\* have the same.
MailTo(u, has) ==
  /\ has => activated /\ mailOf \in {u, NoUser}
  /\ mailOf' = IF has THEN u ELSE IF mailOf = u THEN NoUser ELSE mailOf

-----------------------------------------------------------------------------
AccessInit ==
  /\ profileOf = [u \in {} |-> Administrator] /\ activeUsers = {} /\ mailOf = NoUser
  /\ profiles = {} /\ activeProfiles = {Administrator}
  /\ licensed \in BOOLEAN /\ activated = FALSE /\ owner = NoUser
  /\ setups = 0 /\ asked = 0 /\ unbound = 0

\* verifyActivation: a second activation, maybe for another e-mail, keeps the
\* owner of the first.
VerifyActivation ==
  /\ activated' = TRUE
  /\ mailOf' \in Users \cup {NoUser}
  /\ UNCHANGED <<profileOf, activeUsers, roles, licensed, owner, setupRequests>>

\* POST setup/admin: no user yet when it is asked, then the body is awaited.
AskSetup ==
  /\ Users = {} /\ licensed => activated
  /\ asked < MaxSetups
  /\ setups' = setups + 1 /\ asked' = asked + 1
  /\ UNCHANGED <<people, roles, install, unbound>>

\* The user, and the recovery key that is not kept here, in one transaction.
FirstAdministrator(u) ==
  /\ setups > 0 /\ u \notin Users
  /\ MailTo(u, activated)
  /\ profileOf' = With(profileOf, u, Administrator)
  /\ activeUsers' = activeUsers \cup {u}
  /\ UNCHANGED <<roles, licensed, activated, asked>>

\* With an activation the owner is bound, in a commit of its own.
FinishSetup(u) ==
  /\ FirstAdministrator(u)
  /\ owner' = IF activated THEN u ELSE owner
  /\ setups' = setups - 1
  /\ UNCHANGED unbound

\* The process ends in between, and with it the other requests.
CutBeforeBind(u) ==
  /\ activated /\ unbound < MaxFaultyBinds
  /\ FirstAdministrator(u)
  /\ unbound' = unbound + 1 /\ setups' = 0
  /\ UNCHANGED owner

-----------------------------------------------------------------------------
\* ensureAdminMutationSafe: what the actor may not make of an existing user.
KeepsOwner(u, profile, active) == u = owner => profile = Administrator /\ active
KeepsSelf(actor, u, active) == u = actor => active
KeepsOne(u, profile, active) ==
  (u \in Administrators /\ (profile # Administrator \/ ~active)) => Cardinality(Administrators) > 1

CreateUser(actor, u, profile, active, has) ==
  /\ MayAsk(actor) /\ u \notin Users /\ profile \in activeProfiles
  /\ MailTo(u, has)
  /\ profileOf' = With(profileOf, u, profile)
  /\ activeUsers' = IF active THEN activeUsers \cup {u} ELSE activeUsers
  /\ UNCHANGED <<roles, install, setupRequests>>

\* saveManagedUser for a user there is.
EditUser(actor, u, profile, active, has) ==
  /\ MayAsk(actor) /\ u \in Users /\ profile \in activeProfiles
  /\ KeepsOwner(u, profile, active) /\ KeepsSelf(actor, u, active) /\ KeepsOne(u, profile, active)
  /\ MailTo(u, has)
  /\ profileOf' = [profileOf EXCEPT ![u] = profile]
  /\ activeUsers' = IF active THEN activeUsers \cup {u} ELSE activeUsers \ {u}
  /\ UNCHANGED <<roles, install, setupRequests>>

RemoveUser(actor, u) ==
  /\ MayAsk(actor) /\ u \in activeUsers
  /\ KeepsOwner(u, profileOf[u], FALSE) /\ KeepsSelf(actor, u, FALSE)
  /\ KeepsOne(u, profileOf[u], FALSE)
  /\ activeUsers' = activeUsers \ {u}
  /\ UNCHANGED <<profileOf, mailOf, roles, install, setupRequests>>

-----------------------------------------------------------------------------
\* Mutant: the last administrator is looked for among all users.
LeavesAnother(u, profile) ==
  (profileOf[u] = Administrator /\ profile # Administrator)
    => Cardinality({v \in Users : profileOf[v] = Administrator}) > 1

LeavesOne(u, profile) ==
  (profileOf[u] = Administrator /\ profile # Administrator) => Cardinality(Administrators) > 1

\* assignProfile asks for another administrator even when u is not active.
AssignProfile(actor, u, profile) ==
  /\ MayAsk(actor) /\ u \in Users /\ profile \in activeProfiles
  /\ u = owner => profile = Administrator
  /\ LeavesOne(u, profile)
  /\ profileOf' = [profileOf EXCEPT ![u] = profile]
  /\ UNCHANGED <<activeUsers, mailOf, roles, install, setupRequests>>

CreateProfile(actor, p) ==
  /\ MayAsk(actor) /\ p \notin profiles
  /\ profiles' = profiles \cup {p} /\ activeProfiles' = activeProfiles \cup {p}
  /\ UNCHANGED <<people, install, setupRequests>>

\* Those who are in it may not sign in to do anything while it is not active.
UpdateProfile(actor, p, active) ==
  /\ MayAsk(actor) /\ p \in profiles
  /\ activeProfiles' = IF active THEN activeProfiles \cup {p} ELSE activeProfiles \ {p}
  /\ UNCHANGED <<people, profiles, install, setupRequests>>

DeleteProfile(actor, p) ==
  /\ MayAsk(actor) /\ p \in profiles /\ \A u \in Users : profileOf[u] # p
  /\ profiles' = profiles \ {p} /\ activeProfiles' = activeProfiles \ {p}
  /\ UNCHANGED <<people, install, setupRequests>>

AccessNext ==
  \/ VerifyActivation \/ AskSetup
  \/ \E u \in User : FinishSetup(u) \/ CutBeforeBind(u)
  \/ \E actor \in User, u \in User, profile \in Profile \cup {Administrator}, active, has \in BOOLEAN :
       CreateUser(actor, u, profile, active, has) \/ EditUser(actor, u, profile, active, has)
  \/ \E actor \in User, u \in User : RemoveUser(actor, u)
  \/ \E actor \in User, u \in User, profile \in Profile \cup {Administrator} :
       AssignProfile(actor, u, profile)
  \/ \E actor \in User, p \in Profile :
       \/ CreateProfile(actor, p) \/ DeleteProfile(actor, p)
       \/ \E active \in BOOLEAN : UpdateProfile(actor, p, active)

AccessSpec == AccessInit /\ [][AccessNext]_accessVars

-----------------------------------------------------------------------------
AccessTypeOK ==
  /\ Users \subseteq User /\ activeUsers \subseteq Users
  /\ profiles \subseteq Profile /\ activeProfiles \subseteq profiles \cup {Administrator}
  /\ licensed \in BOOLEAN /\ activated \in BOOLEAN
  /\ owner \in User \cup {NoUser} /\ mailOf \in User \cup {NoUser}
  /\ setups \in 0..asked /\ asked \in 0..MaxSetups /\ unbound \in 0..MaxFaultyBinds

\* However many setups finish, and whoever is moved, deactivated or taken back
\* since, a shop with users has an administrator who can sign in, its owner is
\* one of them, and no user is in a profile that is gone.
AdministratorIsKept ==
  /\ Users # {} => Administrators # {}
  /\ owner # NoUser => owner \in Administrators
  /\ \A u \in Users : profileOf[u] \in profiles \cup {Administrator}

=============================================================================
