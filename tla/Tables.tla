------------------------------- MODULE Tables -------------------------------
(***************************************************************************)
(* The tables of the back office, one program for each of their requests.  *)
(* None of the tables has a unique key: names and codes are unique, and    *)
(* references point at something, only as far as the programs see to it.   *)
(***************************************************************************)
EXTENDS Crud

\* Lists of two rows to delete; sorted ones where the code sorts them or the
\* order does not matter.
Lists == {<<i, j>> : i, j \in Id} \ {<<i, i>> : i \in Id}
SortedLists == {ids \in Lists : ids[1] < ids[2]}

-----------------------------------------------------------------------------
(* directory: roles, menus, posts *)

RoleForm == Forms(Name, Code, {0})
RoleKeys == {"name", "code"}
\* Mutant: the code is compared only when a role is created.
SaveRoleCodeOnce(f) ==
  Saving(f, IF IsNew(f) THEN <<"name", "code">> ELSE <<"changeable", "name">>)
SaveRole(f) == Saving(f, (IF IsNew(f) THEN <<>> ELSE <<"changeable">>) \o <<"name", "code">>)
DeleteRole(i) == Steps(i, <<"changeable", "lockChangeable", "drop">>)
DeleteRoleList(ids) == AllOf(ids, <<"lockChangeable">>)
RoleRequest(p) ==
  /\ Free(p, "role")
  /\ \/ \E f \in RoleForm : Submit(p, "role", f, SaveRole(f))
     \/ \E i \in Id : Remove(p, "role", <<i>>, DeleteRole(i))
     \/ \E ids \in SortedLists : Remove(p, "role", ids, DeleteRoleList(ids))

\* Directories and buttons have no component name.  Bound: menus with one are at
\* the root, with names of their own; the others are below row 1, so that no menu
\* is moved below its own descendant, which access.go:226 does not refuse.
MenuForm == Forms({None}, Code, {0}) \cup Forms(Name, {None}, {1})
MenuKeys == {"nameIn", "code"}
SaveMenu(f) ==
  IF f.id # 0 /\ f.up = f.id THEN <<>>
  ELSE Saving(f, (IF f.up = 0 THEN <<>> ELSE <<"parent">>) \o <<"nameIn", "code">>
                   \o (IF IsNew(f) THEN <<>> ELSE <<"exists">>))
DeleteMenu(i) == Steps(i, <<"exists", "unused", "unusedAll", "drop">>)
DeleteMenuList(ids) == <<Step("unusedAll", 0)>> \o AllOf(ids, <<>>)
MenuRequest(p) ==
  /\ Free(p, "menu")
  /\ \/ \E f \in MenuForm : Submit(p, "menu", f, SaveMenu(f))
     \/ \E i \in Id : Remove(p, "menu", <<i>>, DeleteMenu(i))
     \/ \E ids \in SortedLists : Remove(p, "menu", ids, DeleteMenuList(ids))

PostForm == Forms(Name, Code, {0})
PostKeys == {"name", "code"}
SavePost(f) == Saving(f, (IF IsNew(f) THEN <<>> ELSE <<"exists">>) \o <<"name", "code">>)
DeletePost(i) == Steps(i, <<"exists", "drop">>)
DeletePostList(ids) == AllOf(ids, <<>>)
PostRequest(p) ==
  /\ Free(p, "post")
  /\ \/ \E f \in PostForm : Submit(p, "post", f, SavePost(f))
     \/ \E i \in Id : Remove(p, "post", <<i>>, DeletePost(i))
     \/ \E ids \in SortedLists : Remove(p, "post", ids, DeletePostList(ids))

(* directory: dictionaries.  The code of a type is the key of its data. *)

DictTypeForm == Forms(Name, Code, {0})
DictTypeKeys == {"name", "code"}
SaveDictType(f) == Saving(f, (IF IsNew(f) THEN <<>> ELSE <<"exists">>) \o <<"name", "code">>)
DeleteDictType(i) == Steps(i, <<"exists", "unused", "drop">>)
DeleteDictTypeList(ids) == ForEach(ids, <<"lock">>) \o <<Step("unusedAll", 0)>> \o AllOf(ids, <<>>)
DictTypeRequest(p) ==
  /\ Free(p, "dictType")
  /\ \/ \E f \in DictTypeForm : Submit(p, "dictType", f, SaveDictType(f))
     \/ \E i \in Id : Remove(p, "dictType", <<i>>, DeleteDictType(i))
     \/ \E ids \in SortedLists : Remove(p, "dictType", ids, DeleteDictTypeList(ids))

\* The name of a datum is its value; its parent is the code of a type.
DictDataForm == Forms(Name, {None}, Code)
DictDataKeys == {"nameIn"}
SaveDictData(f) ==
  Saving(f, <<"parent">> \o (IF IsNew(f) THEN <<>> ELSE <<"exists">>) \o <<"nameIn">>)
DeleteDictData(i) == Steps(i, <<"exists", "drop">>)
DeleteDictDataList(ids) == AllOf(ids, <<>>)
DictDataRequest(p) ==
  /\ Free(p, "dictData")
  /\ \/ \E f \in DictDataForm : Submit(p, "dictData", f, SaveDictData(f))
     \/ \E i \in Id : Remove(p, "dictData", <<i>>, DeleteDictData(i))
     \/ \E ids \in SortedLists : Remove(p, "dictData", ids, DeleteDictDataList(ids))

(* directory: tenants, packages, notices *)

\* Bound: packages are rows 1 and 2.
TenantForm == Forms(Name, Code, {1, 2})
TenantKeys == {"name", "code"}
SaveTenant(f) ==
  Saving(f, (IF IsNew(f) THEN <<>> ELSE <<"changeable">>) \o <<"name", "code", "parent">>)
DeleteTenant(i) == Steps(i, <<"changeable", "drop">>)
DeleteTenantList(ids) == ForEach(ids, <<"changeable", "drop">>)
TenantRequest(p) ==
  /\ Free(p, "tenant")
  /\ \/ \E f \in TenantForm : Submit(p, "tenant", f, SaveTenant(f))
     \/ \E i \in Id : Remove(p, "tenant", <<i>>, DeleteTenant(i))
     \/ \E ids \in Lists : Remove(p, "tenant", ids, DeleteTenantList(ids))

PackageForm == Forms(Name, {None}, {0})
PackageKeys == {"name"}
SavePackage(f) == Saving(f, (IF IsNew(f) THEN <<>> ELSE <<"exists">>) \o <<"name">>)
DeletePackage(i) == Steps(i, <<"exists", "unused", "drop">>)
\* Mutant: the tenants are counted only when one package is deleted.
DeletePackagesUsed(ids) == ForEach(ids, <<"exists", "drop">>)
DeletePackageList(ids) == ForEach(ids, <<"exists", "unused", "drop">>)
PackageRequest(p) ==
  /\ Free(p, "package")
  /\ \/ \E f \in PackageForm : Submit(p, "package", f, SavePackage(f))
     \/ \E i \in Id : Remove(p, "package", <<i>>, DeletePackage(i))
     \/ \E ids \in Lists : Remove(p, "package", ids, DeletePackageList(ids))

NoticeForm == Forms({None}, {None}, {0})
SaveNotice(f) == Saving(f, IF IsNew(f) THEN <<>> ELSE <<"exists">>)
DeleteNotices(ids) == ForEach(ids, <<"drop">>)
NoticeRequest(p) ==
  /\ Free(p, "notice")
  /\ \/ \E f \in NoticeForm : Submit(p, "notice", f, SaveNotice(f))
     \/ \E i \in Id : Remove(p, "notice", <<i>>, DeleteNotices(<<i>>))
     \/ \E ids \in Lists : Remove(p, "notice", ids, DeleteNotices(ids))

(* message: templates, mail accounts, SMS channels *)

TemplateForm == Forms({None}, Code, Id)
TemplateKeys == {"code"}
SaveNotify(f) == Saving(f, <<"code">> \o (IF IsNew(f) THEN <<>> ELSE <<"exists">>))
SaveMail(f) == Saving(f, <<"parent", "code">> \o (IF IsNew(f) THEN <<>> ELSE <<"exists">>))
SaveSms(f) == Saving(f, <<"parent", "code">> \o (IF IsNew(f) THEN <<>> ELSE <<"exists">>))
DeleteTemplate(i) == Steps(i, <<"drop">>)
DeleteTemplates(ids) == AllOf(ids, <<>>)
NotifyRequest(p) ==
  /\ Free(p, "notify")
  /\ \/ \E f \in Forms({None}, Code, {0}) : Submit(p, "notify", f, SaveNotify(f))
     \/ \E i \in Id : Remove(p, "notify", <<i>>, DeleteTemplate(i))
     \/ \E ids \in SortedLists : Remove(p, "notify", ids, DeleteTemplates(ids))
MailRequest(p) ==
  /\ Free(p, "mail")
  /\ \/ \E f \in TemplateForm : Submit(p, "mail", f, SaveMail(f))
     \/ \E i \in Id : Remove(p, "mail", <<i>>, DeleteTemplate(i))
     \/ \E ids \in SortedLists : Remove(p, "mail", ids, DeleteTemplates(ids))
SmsRequest(p) ==
  /\ Free(p, "sms")
  /\ \/ \E f \in TemplateForm : Submit(p, "sms", f, SaveSms(f))
     \/ \E i \in Id : Remove(p, "sms", <<i>>, DeleteTemplate(i))
     \/ \E ids \in SortedLists : Remove(p, "sms", ids, DeleteTemplates(ids))

AccountForm == Forms({None}, {None}, {0})
SaveAccount(f) == Saving(f, <<>>)
DeleteAccount(i) == Steps(i, <<"exists", "unused", "drop">>)
DeleteAccountList(ids) == AllOf(ids, <<"unused">>)
AccountRequest(p) ==
  /\ Free(p, "account")
  /\ \/ \E f \in AccountForm : Submit(p, "account", f, SaveAccount(f))
     \/ \E i \in Id : Remove(p, "account", <<i>>, DeleteAccount(i))
     \/ \E ids \in SortedLists : Remove(p, "account", ids, DeleteAccountList(ids))
SaveChannel(f) == Saving(f, <<>>)
DeleteChannel(i) == Steps(i, <<"exists", "unused", "drop">>)
DeleteChannelList(ids) == AllOf(ids, <<"unused">>)
ChannelRequest(p) ==
  /\ Free(p, "channel")
  /\ \/ \E f \in AccountForm : Submit(p, "channel", f, SaveChannel(f))
     \/ \E i \in Id : Remove(p, "channel", <<i>>, DeleteChannel(i))
     \/ \E ids \in SortedLists : Remove(p, "channel", ids, DeleteChannelList(ids))

(* identity: OAuth2 and social clients.  The code of a social client is the
   pair of its platform and user type. *)

ClientForm == Forms({None}, Code, {0})
ClientKeys == {"code"}
SaveClient(f) == Saving(f, <<"code">> \o (IF IsNew(f) THEN <<>> ELSE <<"exists">>))
DeleteClient(i) == Steps(i, <<"exists", "drop">>)
DeleteClientList(ids) == AllOf(ids, <<>>)
ClientRequest(p) ==
  /\ Free(p, "client")
  /\ \/ \E f \in ClientForm : Submit(p, "client", f, SaveClient(f))
     \/ \E i \in Id : Remove(p, "client", <<i>>, DeleteClient(i))
     \/ \E ids \in SortedLists : Remove(p, "client", ids, DeleteClientList(ids))
SaveSocial(f) == Saving(f, <<"code">> \o (IF IsNew(f) THEN <<>> ELSE <<"exists">>))
DeleteSocial(i) == Steps(i, <<"drop">>)
DeleteSocialList(ids) == AllOf(ids, <<>>)
SocialRequest(p) ==
  /\ Free(p, "social")
  /\ \/ \E f \in ClientForm : Submit(p, "social", f, SaveSocial(f))
     \/ \E i \in Id : Remove(p, "social", <<i>>, DeleteSocial(i))
     \/ \E ids \in SortedLists : Remove(p, "social", ids, DeleteSocialList(ids))

(* infra: parameters, data sources, contacts of demo01, categories of demo02 *)

ParameterForm == Forms({None}, Code, {0})
ParameterKeys == {"code"}
SaveParameter(f) == Saving(f, <<"key">> \o (IF IsNew(f) THEN <<>> ELSE <<"exists">>))
DeleteParameter(i) == Steps(i, <<"changeable", "drop">>)
DeleteParameters(ids) == ForEach(ids, <<"changeable", "drop">>)
ParameterRequest(p) ==
  /\ Free(p, "config")
  /\ \/ \E f \in ParameterForm : Submit(p, "config", f, SaveParameter(f))
     \/ \E i \in Id : Remove(p, "config", <<i>>, DeleteParameter(i))
     \/ \E ids \in Lists : Remove(p, "config", ids, DeleteParameters(ids))

SourceForm == Forms({None}, {None}, {0})
SaveSource(f) == Saving(f, IF IsNew(f) THEN <<>> ELSE <<"exists">>)
DeleteSource(i) == Steps(i, <<"exists", "drop">>)
DeleteSourceList(ids) == AllOf(ids, <<>>)
SourceRequest(p) ==
  /\ Free(p, "source")
  /\ \/ \E f \in SourceForm : Submit(p, "source", f, SaveSource(f))
     \/ \E i \in Id : Remove(p, "source", <<i>>, DeleteSource(i))
     \/ \E ids \in SortedLists : Remove(p, "source", ids, DeleteSourceList(ids))
SaveContact(f) == Saving(f, IF IsNew(f) THEN <<>> ELSE <<"exists">>)
DeleteContacts(ids) == <<Step("allExist", 0)>> \o AllOf(ids, <<>>)
ContactRequest(p) ==
  /\ Free(p, "contact")
  /\ \/ \E f \in SourceForm : Submit(p, "contact", f, SaveContact(f))
     \/ \E i \in Id : Remove(p, "contact", <<i>>, DeleteContacts(<<i>>))
     \/ \E ids \in SortedLists : Remove(p, "contact", ids, DeleteContacts(ids))

\* The categories of demo02 are a tree; 0 is its root.  Bound: no form
\* moves a category below the last row, names differ from those at the root.
CategoryForm == Forms({None}, {None}, {0}) \cup Forms(Name, {None}, 1 .. MaxId - 1)
CategoryKeys == {"nameIn"}
SaveCategory(f) ==
  IF f.id # 0 /\ f.up = f.id THEN <<>>
  ELSE Saving(f, (IF IsNew(f) THEN <<>> ELSE <<"exists">>)
                   \o (IF f.up = 0 THEN <<>> ELSE IF IsNew(f) THEN <<"parent">> ELSE <<"parent", "above">>)
                   \o <<"nameIn">>)
DeleteCategory(i) == Steps(i, <<"exists", "unused", "drop">>)
CategoryRequest(p) ==
  /\ Free(p, "category")
  /\ \/ \E f \in CategoryForm : Submit(p, "category", f, SaveCategory(f))
     \/ \E i \in Id : Remove(p, "category", <<i>>, DeleteCategory(i))

-----------------------------------------------------------------------------
(* The specification *)

\* Tables whose programs look at one another.
Families == {{"role"}, {"menu"}, {"post"}, {"dictType", "dictData"}, {"tenant", "package"},
             {"notice"}, {"notify"}, {"account", "mail"}, {"channel", "sms"}, {"client"},
             {"social"}, {"config"}, {"source"}, {"contact"}, {"category"}}

\* A fresh database is empty, or has a row of its own that is not to be touched:
\* the super administrator's role, the system tenant, a system parameter.
Seed(kind, n, c) == [kind |-> kind, name |-> IF kind = "config" THEN None ELSE n, code |-> c,
                     up |-> 0, builtin |-> TRUE]

TablesInit ==
  /\ topic \in Families
  /\ \/ nextId = 0 /\ rows = [i \in Id |-> Dead]
     \/ /\ nextId = 1
        /\ \E kind \in topic \cap {"role", "tenant", "config"}, n \in Name, c \in Code :
             rows = [i \in Id |-> IF i = 1 THEN Seed(kind, n, c) ELSE Dead]
  /\ crud = [p \in Proc |-> Resting]
  /\ tainted = {}

TablesStep(p) ==
  \/ RoleRequest(p) \/ MenuRequest(p) \/ PostRequest(p)
  \/ DictTypeRequest(p) \/ DictDataRequest(p)
  \/ TenantRequest(p) \/ PackageRequest(p) \/ NoticeRequest(p)
  \/ NotifyRequest(p) \/ MailRequest(p) \/ SmsRequest(p)
  \/ AccountRequest(p) \/ ChannelRequest(p)
  \/ ClientRequest(p) \/ SocialRequest(p)
  \/ ParameterRequest(p) \/ SourceRequest(p) \/ ContactRequest(p) \/ CategoryRequest(p)
  \/ CrudStep(p)

TablesNext == \E p \in Proc : TablesStep(p)

TablesSpec == TablesInit /\ [][TablesNext]_crudVars

-----------------------------------------------------------------------------
(* Properties *)

\* The columns each table wants unique: "nameIn" only among the rows of one
\* parent.
Keys == [role |-> RoleKeys, menu |-> MenuKeys, post |-> PostKeys, dictType |-> DictTypeKeys,
         dictData |-> DictDataKeys, tenant |-> TenantKeys, package |-> PackageKeys,
         notify |-> TemplateKeys, mail |-> TemplateKeys, sms |-> TemplateKeys,
         client |-> ClientKeys, social |-> ClientKeys, config |-> ParameterKeys,
         category |-> CategoryKeys,
         notice |-> {}, account |-> {}, channel |-> {}, source |-> {}, contact |-> {}]

Kinds == UNION Families

ASSUME TablesAssumption == None \notin Kinds

\* Types of rows and requests; ids beyond nextId were never given out and no
\* row is locked without a request.
TablesTypeOK ==
  /\ topic \in Families
  /\ rows \in [Id -> [kind : topic \cup {None}, name : Name \cup {None}, code : Code \cup {None},
                      up : {0} \cup Id \cup Code, builtin : BOOLEAN]]
  /\ nextId \in 0 .. Cardinality(Id)
  /\ \A i \in Id : i > nextId => rows[i] = Dead
  /\ \A p \in Proc : /\ crud[p].kind \in topic \cup {None}
                     /\ crud[p].locked \subseteq Id
                     /\ crud[p].kind = None <=> crud[p].todo = <<>>
  /\ tainted \subseteq {i \in Id : rows[i] # Dead}

Clash(i, j, key) ==
  CASE key = "name"   -> rows[i].name = rows[j].name /\ rows[i].name # None
    [] key = "code"   -> rows[i].code = rows[j].code /\ rows[i].code # None
    [] key = "nameIn" -> rows[i].name = rows[j].name /\ rows[i].up = rows[j].up /\ rows[i].name # None

\* Names and codes are unique in every table as long as no request committed
\* between the checks of another and its write: the checks before each write are
\* the only thing that keeps them so (access.go:93, dict.go:65, tenant.go:87,
\* message/service.go:76, identity/service.go:130, config/service.go:16).
UniqueUnlessRaced ==
  \A i, j \in Id \ tainted :
    i < j /\ rows[i] # Dead /\ rows[i].kind = rows[j].kind =>
      \A key \in Keys[rows[i].kind] : ~ Clash(i, j, key)

\* Among any rows of the tree that no overlap has written there is one whose
\* parent is not: none of them is below itself.
NoCycle ==
  \A S \in SUBSET (Live("category") \ tainted) :
    S # {} => \E i \in S : rows[i].up \notin S

\* Data of a dictionary have their type, menus their parent, tenants their
\* package, templates their account or channel, unless a request that wrote one
\* of them was overtaken by another between its checks and its write; renaming a
\* type takes its data along (dict.go:65,127, mysql_dict.go:58,83), and no category
\* of a tree that was not edited so is below itself (demo02/service.go:66).
RefsUnlessRaced ==
  /\ \A i \in Id \ tainted :
       rows[i].kind \in DOMAIN Parent /\ ~ rows[i].builtin =>
         HasParent(rows[i].kind, rows[i].up)
  /\ NoCycle
=============================================================================
