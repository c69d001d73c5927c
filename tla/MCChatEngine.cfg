CONSTANTS
  w = w
  l = l
  e = e
  Vocab = {w, l, e}
  Eos = {e}
  Lead = {l}
  Replacement = Replacement
  Prompts <- MCPrompts
  Limits = {1, 2, 4}
  Law <- MCLaw
  Context = 7
SPECIFICATION Spec
INVARIANTS CacheCoherent CacheIsThisConversation CompletedAnswerIsCached
PROPERTIES KeepsPromise
