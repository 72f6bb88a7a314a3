---------------------------- MODULE MCServices ----------------------------
(* Instances of the parts of the system that share no variable: notifications *)
(* and mails, the platform's jobs, identity and access, clients that take     *)
(* several steps.  A behaviour is one part's, and the others stay as they     *)
(* began: what holds of a part then holds of it whatever they do.             *)
EXTENDS
  InboxProperties, EmailTask,
  UsageRollup, TenantProvisioning, UploadDoors, SourcePlugins,
  RefreshSessions, KeycloakSessions, SigningKeys, RateLimit, ScimUsers,
  Catalogue, DataPages, Answers, ChunkedProperties

VARIABLE part  \* the part that moves

\* Extensions the code tells apart, and what it may find in a file.
FewSamples ==
  {[extension |-> "csv", holds |-> "rows", large |-> FALSE],
   [extension |-> "csv", holds |-> "rows", large |-> TRUE],
   [extension |-> "csv", holds |-> "virus", large |-> FALSE],
   [extension |-> "pdf", holds |-> "header", large |-> FALSE],
   [extension |-> "exe", holds |-> "rows", large |-> FALSE]}

\* Two datasets of equal relevance; titles in another order than ids.
Similarities == <<1, 1, 0>>
Titles == <<2, 3, 1>>

Parts ==
  {"inbox", "mail", "usage", "tenants", "uploads", "plugins", "refresh",
   "keycloak", "keys", "limits", "users", "catalogue", "pages", "answers", "chunks"}

\* While they do not move, one initial state of the plugins is enough, and one of
\* the questions.
OneSetup ==
  /\ setup = [type |-> "rest_api", lacks |-> "nothing", linked |-> TRUE]
  /\ source.has = "rows"

ServicesInit ==
  /\ part \in Parts
  /\ InboxInit
  /\ MailInit
  /\ UsageInit
  /\ ProvisionInit
  /\ DoorsInit
  /\ PluginsInit
  /\ RefreshInit
  /\ KcInit
  /\ KeysInit
  /\ RateInit
  /\ ScimInit
  /\ CatInit
  /\ PagesInit
  /\ AnswersInit
  /\ ChunkInit
  /\ part # "plugins" => OneSetup
  /\ part # "answers" => aiMode = "disabled"

ServicesNext ==
  \/ /\ part = "inbox" /\ InboxNext
     /\ UNCHANGED <<part, mailVars, usageVars, provisionVars, doorVars, pluginVars, refreshVars, kcVars,
                    keyVars, rateVars, scimVars, catVars, pageVars, answerVars, chunkVars>>
  \/ /\ part = "mail" /\ MailNext
     /\ UNCHANGED <<part, inboxVars, usageVars, provisionVars, doorVars, pluginVars, refreshVars, kcVars,
                    keyVars, rateVars, scimVars, catVars, pageVars, answerVars, chunkVars>>
  \/ /\ part = "usage" /\ UsageNext
     /\ UNCHANGED <<part, inboxVars, mailVars, provisionVars, doorVars, pluginVars, refreshVars, kcVars,
                    keyVars, rateVars, scimVars, catVars, pageVars, answerVars, chunkVars>>
  \/ /\ part = "tenants" /\ ProvisionNext
     /\ UNCHANGED <<part, inboxVars, mailVars, usageVars, doorVars, pluginVars, refreshVars, kcVars,
                    keyVars, rateVars, scimVars, catVars, pageVars, answerVars, chunkVars>>
  \/ /\ part = "uploads" /\ DoorsNext
     /\ UNCHANGED <<part, inboxVars, mailVars, usageVars, provisionVars, pluginVars, refreshVars, kcVars,
                    keyVars, rateVars, scimVars, catVars, pageVars, answerVars, chunkVars>>
  \/ /\ part = "plugins" /\ PluginsNext
     /\ UNCHANGED <<part, inboxVars, mailVars, usageVars, provisionVars, doorVars, refreshVars, kcVars,
                    keyVars, rateVars, scimVars, catVars, pageVars, answerVars, chunkVars>>
  \/ /\ part = "refresh" /\ RefreshNext
     /\ UNCHANGED <<part, inboxVars, mailVars, usageVars, provisionVars, doorVars, pluginVars, kcVars,
                    keyVars, rateVars, scimVars, catVars, pageVars, answerVars, chunkVars>>
  \/ /\ part = "keycloak" /\ KcNext
     /\ UNCHANGED <<part, inboxVars, mailVars, usageVars, provisionVars, doorVars, pluginVars, refreshVars,
                    keyVars, rateVars, scimVars, catVars, pageVars, answerVars, chunkVars>>
  \/ /\ part = "keys" /\ KeysNext
     /\ UNCHANGED <<part, inboxVars, mailVars, usageVars, provisionVars, doorVars, pluginVars, refreshVars,
                    kcVars, rateVars, scimVars, catVars, pageVars, answerVars, chunkVars>>
  \/ /\ part = "limits" /\ RateNext
     /\ UNCHANGED <<part, inboxVars, mailVars, usageVars, provisionVars, doorVars, pluginVars, refreshVars,
                    kcVars, keyVars, scimVars, catVars, pageVars, answerVars, chunkVars>>
  \/ /\ part = "users" /\ ScimNext
     /\ UNCHANGED <<part, inboxVars, mailVars, usageVars, provisionVars, doorVars, pluginVars, refreshVars,
                    kcVars, keyVars, rateVars, catVars, pageVars, answerVars, chunkVars>>
  \/ /\ part = "catalogue" /\ CatNext
     /\ UNCHANGED <<part, inboxVars, mailVars, usageVars, provisionVars, doorVars, pluginVars, refreshVars,
                    kcVars, keyVars, rateVars, scimVars, pageVars, answerVars, chunkVars>>
  \/ /\ part = "pages" /\ PagesNext
     /\ UNCHANGED <<part, inboxVars, mailVars, usageVars, provisionVars, doorVars, pluginVars, refreshVars,
                    kcVars, keyVars, rateVars, scimVars, catVars, answerVars, chunkVars>>
  \/ /\ part = "answers" /\ AnswersNext
     /\ UNCHANGED <<part, inboxVars, mailVars, usageVars, provisionVars, doorVars, pluginVars, refreshVars,
                    kcVars, keyVars, rateVars, scimVars, catVars, pageVars, chunkVars>>
  \/ /\ part = "chunks" /\ ChunkNext
     /\ UNCHANGED <<part, inboxVars, mailVars, usageVars, provisionVars, doorVars, pluginVars, refreshVars,
                    kcVars, keyVars, rateVars, scimVars, catVars, pageVars, answerVars>>

servicesVars ==
  <<part, inboxVars, mailVars, usageVars, provisionVars, doorVars, pluginVars, refreshVars,
    kcVars, keyVars, rateVars, scimVars, catVars, pageVars, answerVars, chunkVars>>

ServicesSpec == ServicesInit /\ [][ServicesNext]_servicesVars
=============================================================================
