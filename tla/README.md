# TLA+ models of SDCCFoodDelivery

A verification development of the food-delivery system: TLA+ modules of its core, TLC
configurations that check them on small instances, and TLAPS proofs of the main results
for every value of the constants. Paths below are relative to the repository.

## 1. The system

| Component | Source | State it keeps | Operations |
|---|---|---|---|
| Web frontend | `frontend/handler.go`, `rpc.go`, `main.go` (Go), the scripts in `templates/` | none of its own: the session is a cookie of the browser | one goroutine per HTTP request; pages, cart handlers, checkout page, log in, log out, registration, changes of the user's data |
| Page widgets | `frontend/static/js/materialize.js` (Materialize 1.0.0), `init.js`, `templates/footer.html` | a state per widget of a page, and the page's body | what clicks, keys, touches, timers and animations do |
| Cart service | `Cartservice/` (C#) | one cart per user, as JSON in a Redis hash | `AddItem`, `EmptyCart`, `GetCart` |
| Checkout service | `CheckOutService/.../CheckOutServiceController.java`, `CassandraEventStore`, `hBaseCheckOutStore`, `chekoutKafkaTools` (Java) | the shared field `newOrderMessage`, the list of received finalize messages, `checkout_event` (Cassandra), `OrderTable` (HBase) | `initiateCheckout` per gRPC thread, a consumer thread |
| Saga orchestrator | `CheckOutService/.../sagaOrchestrator/SagaOrchestrator.java`, a thread of the checkout process | one log per open transaction, in memory | `elaborateMessage` and the handlers it calls |
| Payment service | `SDCC_payment_service` (Java) | `payment_event` (Cassandra), a pool of ten threads and its queue | `kafkaSubscriber`, request task, compensation task |
| Kitchen service | `SDCC_kitchen_service` (Java) | `kitchen_event` (Cassandra), a pool and its queue | `kafkaSubscriber`, request task |
| Kafka | external | four topics, the offsets of their consumers | publish, poll, commit |
| User service | `sdcc_user_service` (Java) | a row per user (PostgreSQL), a static connection | find, log in, register, delete, update a column, a card, the preferences |
| Mail service | `sdcc_mail_service` (Java) | mail templates (PostgreSQL) | send, update a template |
| Restaurant service | `RestaurantService` (Java) | restaurants and menus (MongoDB) | query, insert, change, add menu items |
| Recommendation service | `sdcc_recommendation_service` (Python) | none | compute a list |

How they interact. A checkout page fetches the cart, asks the user service for the card,
and calls the checkout service, whose thread publishes the order on `saga_reply_channel`
and then spins until a finalize message of its transaction is in the list. The
orchestrator reads `saga_reply_channel` and drives the saga: a request on
`payment_service_req_channel`; on acceptance a request on `kitchen_service_req_channel`;
on a refusing kitchen a compensation on the payment channel; and at the end a finalize
message on `checkout_service_req_channel`. Payment and kitchen answer on
`saga_reply_channel`. An approved order empties the user's cart and mails the user. The
session travels with each request and comes back with the responses that save it; the
pages go on showing, and sending, what was rendered for them. In the browser, scripts of
the pages show toasts, and `footer.html` makes the widgets of a page.

What is hard here:

- **Interleaving.** All gRPC threads share `newOrderMessage` without a lock; two
  `AddItem` calls of one user read and write the same cart; a checkout runs while the
  user goes on shopping.
- **Sharing a connection.** All threads of the user service use one static connection,
  which each find closes and sets to null when done; a change of a user reads the whole
  row and writes it back.
- **Delivery.** Sends are asynchronous and nobody looks at their future; offsets are
  committed automatically, so a record may be read again after a restart, or never be
  processed; a group with no committed offset starts at the end of the topic.
- **Crashes.** The saga log, the message list, the pool's queue and its running tasks are
  only in memory.
- **Failures.** A refused insert ends a task without an answer; a pool swallows the
  exception. The waiting loop has no timeout.
- **Stale pages and cookies.** A handler works on the session its request carried, and a
  response sets the whole cookie, whatever was set meanwhile; a page names the user it was
  rendered for.
- **Timers and animations.** A widget's animation outlives the click that started it, and
  its end hides or unlists what a later click may have shown.
- **Progress.** A published call must be answered, and the log of a saga must go.

What makes each component correct: the orchestrator decides only what payment and kitchen
reported, and its log says what was sent and answered; payment keeps the money of approved
orders and refunds that of rejected ones; the checkout controller answers each call with the
decision of that call's transaction, and its event store tells each call's story; the cart
service neither loses nor doubles an item, and keeps a cart one restaurant's; the user
service keeps no connection that its own requests have closed, and an acknowledged change of
a user stays; the restaurant service keeps a menu's first dish and what was added after it,
and brings back nothing deleted; the frontend mails and empties the cart of those, and only
those, whose order was approved, and shows nobody what is another's; a widget shows what it
takes its state to be, and toasts go away by themselves.

## 2. The modules

| Module | Models | State and actions against the code |
|---|---|---|
| `SagaTopics` | the topics, messages, producers and consumers | `topic[t]` all records of a topic; `position`, `started`, `committed` the consumer's offsets; `Send`, `ProducerRetry`, `Consume`, `ConsumersDown`, `Join` |
| `SagaOrchestrator` | `SagaOrchestrator.java` | one operator per handler, named as in the code; `orchestratorLogs` is the map of logs, of which the keys and the logged order are kept |
| `PaymentService` | `PaymentService.java`, both thread classes, `PaymentController.save` | `paymentTasks` the submitted tasks with a program counter; `paymentEvents` the rows; `charges` the successes of `executePayment` |
| `KitchenService` | `KitchenService.java`, `KitchenThread.java`, `KitchenController.save` | `kitchenTasks`, `kitchenEvents` |
| `CheckoutController` | `initiateCheckout`, `elaborateMessage`, `putEvent`, `putRowToTable`, the message list | `pc[c]` a call's place in `initiateCheckout`; one action per access to what the threads share |
| `FoodSaga` | the processes together | composes the five modules above; crashes; the fairness; the properties of the saga |
| `FoodSagaInvariant` | - | the refinement mapping, which says which records, rows and charges of `FoodSaga` make a fact of `OrderSaga` (`KeepsPromise`); the inductive invariants: `EverythingHasItsCause`, which holds whatever fails, `SagasGoStepByStep` and `CallsLeaveTheirTrail`, which hold until something does; `UnpublishedIDsAreServed` |
| `OrderSaga` | - | the abstract specification: the facts about an order, which may cause which, and what its customer is told |
| `FoodSagaProofs`, `FoodSagaSteps` | - | the TLAPS proofs about `FoodSaga` |
| `CartService` | `RedisOrderStore.cs`, `Cart.cs` | `carts[u]` what Redis has, `held[q]` the copy a call works on; `AddItemRead` and `AddItemWrite` are the two sides of the await in `AddItemAsync` |
| `Storefront` | the cart handlers of `handler.go` and their calls in `rpc.go` | `pc[q]` how far the handler of request q is; one action per call it makes |
| `StorefrontProofs` | - | the TLAPS proofs about `Storefront` |
| `UserService` | the service, controller, data source, loader and model classes of `sdcc_user_service` | `connection` the static field, `open` the connections open, `lost` those a failure broke off; `rows[u]`; `pc[q]` a thread's place: testing, opening, returning, closing and setting to null are steps of their own, as every one is an access to the field others share |
| `UserServiceProofs` | - | the TLAPS proofs about `UserService` |
| `RestaurantService` | the server, `MongoDBService`, controller, entity and loader classes of `RestaurantService`, and the frontend's wrappers in `rpc.go` | `table[id]` the documents of the collection; `pc[q]` a thread's place; `ReadMenu` and `Write` are the two halves of `modifyRestaurantMenu`; `found[q]` what a cursor has returned, in batches |
| `RestaurantServiceProofs` | - | the TLAPS proofs about `RestaurantService` |
| `Sessions` | the handlers of `handler.go` that read or save the session, and the scripts of the pages that call them | `cookie` what the browser holds, `call[q].sent` the copy a request carries, `reply[q]` what its response sets; `page[t]` what a tab shows; `rows[u]` the user service's row |
| `SessionsProofs` | - | the TLAPS proofs about `Sessions` |
| `Document` | a page as its widgets share it | `widget[name]` the state of a widget, a record; `scrolls` whether the body does |
| `Sidenav`, `Toasts`, `Collapsible`, `Modal`, `Dropdown`, `Carousel`, `Tabs`, `Hover`, `Waves`, `Autocomplete`, `Chips`, `ScrollSpy`, `Datepicker`, `Timepicker` | the class of that name (`Toast` in `Toasts`; `Tooltip` and `FloatingActionButton` in `Hover`) | a record with the fields the class keeps, what the page shows of it, the timers and animations under way; one operator per handler |
| `Forms` | the handlers of text fields and areas, and `FormSelect` | `field`, `area`, `select` |
| `Media` | `Slider`, and `Materialbox` as Lightbox | `slider`, `box` |
| `Widgets` | pages of these widgets | one disjunct per widget of the page; the properties are conjunctions of the widgets' |
| `ControlsProofs`, `WidgetsProofs` | - | the TLAPS proofs about `Widgets`: the first has lemmas about numbers and lists and the invariants of most widgets, the second those of the datepicker, carousel, tabs and scrollspy, and the page |
| `MCStorefront`, `MCUserService`, `MCSessions`, `MCWidgets` | - | the modules for TLC, with symmetry sets where there is no liveness; `FoodSagaInvariant` and `RestaurantService` need none |

Operators commented `Mutant:` are deliberately wrong variants of the definition that
follows them. No specification uses them; each replaces its definition in one TLC run to
show that a property can fail.

Modelling decisions a reader should know:

- *Names.* The order and the transaction ID of call c are both named c. IDs are fresh
  UUIDs and every call makes one order, so this is a bijection; an ID travelling with
  another call's order shows as two different names in one record. `OrphanID` is the ID
  `putEvent` mints when the order it is to reject has none.
- *The race on `newOrderMessage`.* The field is read afresh at each place the code reads
  it; the several reads within one `putEvent` are one. Memory is taken to be coherent (a
  thread sees the latest assignment), although the code has no synchronisation that
  promises it. A weaker memory would only add stale reads of the same field.
- *Topics.* One partition and one consumer each. All four consumers use the group `test`
  on different topics. They are taken to be subscribed before the first order; after a
  crash, `Join` may come late, and skips what `latest` skips.
- *Committed offsets* are chosen when the consumer dies, from the positions the auto
  commit could have left, which is the same as choosing them as they are committed, since
  nobody reads them earlier.
- *Pools.* The n threads of a pool run the n oldest unfinished tasks.
  `Thread.currentThread().stop()` in a task only unwinds it: the pool's future catches
  the `ThreadDeath`, and the pool stays as large as it was.
- *HBase rows* are keyed by the current millisecond. A put may replace the row of a call
  that was about to put at the same time; `alongside` holds who that may be.
- *Chance.* Payment and kitchen draw their answers at random; both are always possible.
  (A comment in `KitchenThread.java` names a 10% chance of acceptance, the code accepts
  in 90%; a probability is not something these models tell apart.)
- *Faults* are of four kinds: a process crash, a record lost by its producer, a record
  repeated by it, an insert refused by a database. `FaultKinds` selects them and
  `MaxFaults` bounds their number.
- *Carts.* A Redis command is atomic, and one whose call fails may have been executed. A
  dish is priced by its restaurant, so a price is named by the restaurant. Quantities are
  positive. The Redis connection is opened before the process serves, so the
  double-checked opening has no second caller.
- *Storefront and saga.* `Storefront` sees the checkout service as its caller does: an
  order is approved, rejected, or ends in an error that says neither.
- *Users.* A value a request sends is named by the request, and so is what the encoder
  makes of it; so a column says whose change it has. Passwords are not told apart: a log
  in of an existing user may succeed or not. The ID that the table's `SERIAL` gives to a
  saved user is named by the request that saves it. Mail addresses are unique, which the
  table does not demand.
- *The static connection.* Each access to the field is a step, and memory is coherent, as
  for `newOrderMessage`. Preparing and executing a statement are one step: a connection
  closed between the two fails the execution as one closed before fails both. The loader
  leaves its connection in the field; in a restarted process, whose loader finds the
  database made and stops, the field is null. `MaxCards` stands for the cards whose JSON
  fits in a `VARCHAR(1024)`. The other columns are `VARCHAR(255)`; what a request sends for
  them is taken to fit.
- *Failures of the database* in the user service are SQL exceptions: a statement may have
  been executed or not when its caller learns of one. The connection may go on working or be
  broken off (`FailsOn`). One that is broken off stays in the field: `UserController`
  neither closes nor forgets it, and `getConnection` asks for null only, so every call fails
  until the process is restarted, unless one that had executed its statement before closes
  it. `close` may throw too (`CloseFails`), which is printed, and the field keeps its
  connection; closing one that is closed already does nothing. `FieldIsUsable` excepts
  connections that were broken off, and `ServedAlone` is stated until something fails: these
  are the limits of what the service promises, not of the model.
- *Restaurants.* The name, city, address and tags a call sends are set together, so one
  name stands for them; a menu change adds one dish. The queries by city, address and tag
  differ from the one by name in the field they compare, and no page uses them. A cursor
  reads in batches, between which the collection may change; a document that no longer
  matches when its batch is read is not returned. A dish is stored as text in which its
  fields are not quoted: `plain` says whether that text can be parsed again, which the
  service finds out when it reads the dish. `fillDB` runs before the server listens and is
  one step; a restart inserts the file's restaurants once more under new IDs, so the lists
  then show each of them twice. Documents of a restaurant always have a menu, as every
  insertion gives one. `getRestaurantMenu` casts the stored texts to objects and so fails on
  every menu that is not empty, which is every menu; no page calls it.
- *Sessions.* Gorilla's cookie store keeps the whole session in a signed cookie, so
  `Get` is the copy the request carried and `Save` sets all of it. One browser with tabs is
  modelled: two browsers share rows of the user service only, which `UserService` covers.
  Values of different users differ, so a value says whose it is. A request is handled in
  one step, but for the log in, whose two calls to the user service are two. A failing call
  may have been executed. `crossed` records that a page rendered for one user was used in
  the session of another, after which the code does show, and store, the value of one as
  the other's; `overlapped` that two requests were on their way at once, after which a late
  response may set an older session.
- *Widgets.* `materialize.js` is the Materialize library at version 1.0.0, kept in the
  repository as source; the pages load the minified build of the same version. The browser
  runs handlers, timers and callbacks one at a time, so each is a step. `anime.js` is
  taken as external: an animation ends and calls its callback unless `anim.remove` has
  stopped it. Geometry is reduced to what the code branches on: a drag is far enough or
  not, a slide is in the middle or between two. Offsets of a carousel are counted in half
  slots: a padding is what takes them from the one to the other when the window is resized.
  The slides of tabs are as wide as the first panel, which is none when that is hidden
  (`width`). Options are chosen in the initial states where a page can set them; the default
  time 'now', which is the browser's clock, is left out. The clock's `Angles` (60 is the one
  that rounds to a full turn) and the calendar's `Dates` are samples round the end of a dial, a
  February and a year. Years are from 100 on, as `new Date` takes 0 to 99 for 1900 to 1999.
- *What a widget does not promise.* Some orders of events leave a widget in a state of which
  no document says that it is wrong. A history field of its record names each, and the
  property is stated for the others: two fingers on the drawer at once (`mixed`); a carousel
  turned to a place without a slide (`astray`), or resized under a padding (`skewed`), which
  puts it between two; tabs whose panels were stopped on their way (`interrupted`); a
  tooltip opened by a script during a delay (`hasty`); a button touched beside (`outside`)
  or pressed twice at once (`together`); suggestions made again without counting from 0
  (`recounted`) or pressed and let go beside (`strayed`); chips reached with the tab key
  while a key is down (`mixed`); a select whose form was reset (`stale`); a slider's first
  slide chosen by the markup (`marked`); an overlay clicked during its animation (`early`);
  a floating button opened before it came to rest (`hasty`) or closed before it listened
  (`leaked`); a visible section that was hidden (`shrank`); a clock whose timer turns a hand
  the user has turned (`late`); two fingers on toasts, or one that left unheard of
  (`crossed`); a toast dismissed again (`again`), which is the subject of `toast_swipe`.
- *What the code does wrong, and the properties leave aside.* Of tabs that were made
  swipeable in a window wider than `responsiveThreshold` no panel is hidden, as line 4224 of
  `materialize.js` takes the option back after the panels have become slides: only that the
  panel chosen last is among those shown is demanded of them (`wrapped`), and nothing once
  their carousel has divided by a width of zero (`width` is "lost"). On a clock of twelve
  hours a text without a half is taken for the afternoon (line 10018), so that a default
  time of 00:15, which line 9661 allows, is opened as 12:15 PM: `Meaning` says what the text
  stands for, and `ClockOpened` does not count that half as misread. A toast whose finger
  left while another one was dragged, or unheard of (there is no `touchcancel` at line
  5293), takes itself to be dragged for ever and stays: `ToastsGo` excepts it while it is so
  left (`Stranded`).
- *Stopping.* All runs have `CHECK_DEADLOCK FALSE`: the instances have finitely many calls,
  requests and fingers, and once they are answered or gone the system rightly rests. A call
  that waits for ever is caught by the liveness properties, and so is a toast; other widgets
  always take another click.

## 3. The runs

| Run | Instance | Properties | What it shows |
|---|---|---|---|
| `overlap` (`MCOverlap.cfg`) | 2 calls at once, payment pool 2, no faults, fairness | `TypeOK`, `MoneyMatchesOutcome`, `OneStepAtATime`, `LogMatchesTopics`, `AnswerFollowsFinalize`, `SameOrderThroughoutSaga`, `PublishedCallIsAnswered`, `OpenSagaCloses` | in every interleaving, races on the order field included, money and decisions agree, customers hear what was decided, an ID never mixes two orders, a saga has one thing under way at a time, the log is exact, and sagas end |
| `faults` (`MCFaults.cfg`) | 1 call, 1 fault of any kind | `ApprovedIsPaidAndCooked`, `RejectedIsDeniedOrRefunded`, `EverythingHasItsCause`, `KeepsPromise` | whatever fails, nothing is decided without its causes; the inductive invariant holds; the saga implements `OrderSaga` |
| `serial` (`MCSerial.cfg`) | 3 calls one after the other, fairness | `EventTrailIsComplete`, `EveryCallIsAnswered` | without overlap each call leaves a complete trail of its own order and is answered |
| `race` (`MCRace.cfg`) | 2 calls at once | `OwnOrderIsPublished` is **violated** | the second call assigns `newOrderMessage` before the first publishes; the first order is lost and its customer waits for ever |
| `tabs` (`MCTabs.cfg`) | 2 users, one with one request at a time and one with up to three at once; 4 requests, 2 restaurants, 2 products, 1 failing call | `TypeOK`, `CartsAreWellFormed`, `NothingIsAddedTwice`, `MailsFollowApprovals`, `NothingIsBoughtTwice`, `OneTabLosesNothing` | however requests overlap and a call fails, carts are one restaurant's, nothing is doubled, and mails follow approvals; who shops with one tab loses no item and buys none twice, whatever others do |
| `lost_item` (`MCLostItem.cfg`) | 1 user, 2 additions at once | `CartHoldsWhatWasAdded` is **violated** | both additions read the cart before either writes it, and one is lost |
| `users_overlap` (`MCUsersOverlap.cfg`) | 1 user, 3 requests at once (find, change preferences, save, delete), 1 failure, which may break the connection off | `TypeOK`, `FieldIsUsable`, `NoPreferenceIsHidden`, `ServedAlone` | whatever overlapping requests do to each other's connection, the field keeps none that they closed, and until the database fails a request served alone afterwards gets its answer |
| `users_apart` (`MCUsersApart.cfg`) | 2 users, one of them the Admin; 3 requests, one of a user at a time; 2 cards fit | `AcknowledgedChangesStay`, `LeaksComeFromOverlaps` | acknowledged changes of a user stay even though those of different users overlap on the connection; connections leak only where requests overlap |
| `restaurants` (`MCRestaurants.cfg`) | 1 restaurant in the file, 3 calls of any operation at once, 1 failure or restart, fairness | `TypeOK`, `MenusKeepTheirFirstDish`, `AcknowledgedDishesStay`, `DeletedStaysDeleted`, `PagesEnd` | no menu loses the dish the details page prints unasked; an acknowledged dish stays unless menu changes overlap; nothing deleted comes back; without failures and unreadable dishes, every page ends |
| `sessions` (`MCSessions.cfg`) | 2 users, 2 tabs, 2 requests at once, 5 in all, 2 columns with 2 values, 1 failing call | `TypeOK`, `NobodySeesAnother`, `SessionIsWhoLoggedIn`, `SessionMatchesRow` | however responses race to set the cookie, no session or page mixes two users unless a page outlives its session; without overlaps the session is who logged in last, and agrees with the user's row |
| `widgets` (`MCWidgets.cfg`) | a page of each widget, one with a drawer and 2 modals; 2 toasts with a finger on each, 2 to 3 items, slides, chips, options; fairness | `TypeOK`, `WidgetsShowTheirState`, `WidgetsKeepCount`, `BodyScrolls`, `ToastsGo` | in whatever order clicks, keys, touches, timers and animations come, a widget shows what it takes its state to be, counts and handlers are paired, the body scrolls when nothing is open, and toasts go unless fingers leave one taking itself to be dragged |
| `toast_swipe` (`MCToastSwipe.cfg`) | 2 toasts | `ToastsStayTheirTime` is **violated** | a toast dismissed twice takes another toast's place in the list, and the container goes with the other in it |

Three runs, those with a property that is violated, disagree with what the code says of
itself. The comments they contradict, and the lines, are under "findings" in `PROJECT.json`.

*Bounds, and why they are enough.* Two overlapping calls are what the races need: every
race is between one call and another that assigns the shared field. Three serial calls let
a call be the second after a first that was approved or rejected, with old messages in the
list. One fault of every kind reaches each handler at each of its steps. Two calls with a
fault, and one call with two crashes, are too large to finish in a few minutes; there the
proofs of section 4 stand, which hold for any number of calls, faults and pool threads.
For the carts, four requests are an addition that is overtaken by two others, or a
checkout and an addition around an emptying, beside a request of the other user; two
restaurants offering the same product and two products tell all the branches of `AddItem`
apart; a second addition tells an increase from a replacement. In the user service three
requests are one that uses a connection, one that closes it and one that opens another; or
two changes of a user and one of another user that breaks one of them; two cards make the
third one too many. The operations left out of a run differ from one in it only in the
column they change, and the proofs cover them all. Three calls on restaurants are a menu
change with two others between its halves, or a list read in two batches around a change;
one restaurant of the file is two after a restart, beside those inserted. Five requests of
a browser are a log in of one user, a log out, a log in of another, and two more that
carry what was before. A widget needs two or three of its parts for one to be in the way
of another, and a timer or animation of each to outlive the next click; widgets of
different classes meet in the body only, where the drawer and the modals are put on one
page.

*Fairness* (`FairSpec` of `FoodSaga`): weak fairness of each call's thread, of the
consumers, of the orchestrator and of the two pools, and of a restarted process subscribing.
Each of these is a loop the code never leaves, or a task a pool thread runs to its end.
Nothing makes a customer place an order, and no fault is ever forced. Liveness is claimed
only without faults: a lost record does leave a call spinning for ever, as its loop has no
timeout. In `RestaurantService` it is the weak fairness of each thread that serves a call.
In `Widgets` (`ToastsFairness`) it is weak fairness of a toast's animation, which the
browser runs to its end, and of a finger's leaving a toast it holds, heard of or not; and
strong fairness of the timer's turns, as a turn counts only while the toast is not dragged
and it may be dragged again and again, but not at every turn, of 20 ms, for ever. `PagesEnd`
is claimed without failures and with dishes that can be parsed: otherwise the frontend,
which takes any error of the stream but its end for a restaurant, reads on for ever.
`PublishedCallIsAnswered` asks that the call's ID was published; with overlapping calls it
may never be, which is what `race` shows.

*Properties that hold with overlap and those that do not.* `EventTrailIsComplete` (which
`OwnOrderIsPublished` is a part of), `EveryCallIsAnswered` (saga) and
`NothingIsBoughtTwice`, `OneTabLosesNothing` (carts) hold of calls that do not overlap and
are stated and checked so; the code breaks them when calls do, as `race` and `lost_item`
show of two of them. So it is with `SessionIsWhoLoggedIn` and `SessionMatchesRow` for the
requests of a browser; with `AcknowledgedChangesStay` for calls of one user: of two that
overlap, the later write erases the earlier one's change, though both were answered TRUE;
and with `AcknowledgedDishesStay` for menu changes of one restaurant, where a deletion or
modification of the restaurant may overlap them. `ServedAlone` speaks of a request without
others beside it, but of every state that overlaps before it may have left behind.

## 4. The proofs

All proofs are checked by TLAPS to the last step, from the modules' assumptions on the
constants only: `Null` and `OrphanID` differ from IDs, bounds and pool sizes are natural
numbers (positive where a pool or a number of tabs is meant), `FaultKinds` is made of the
four kinds, `NoCart` is no cart; in the user service `Null` is no user, row or connection,
`NoPreference` is no user, and the requests' names differ from the users'; in the restaurant
service `Null` is no document, the dish of an inserted restaurant is no request's, and no ID
MongoDB gives to a restaurant of the file is one it gives to an inserted one; in the
sessions `Nobody` is no user and `Null` no value. Of the widgets, bounds are numbers, a
calendar's years start at 100, and names that stand for nothing are no toast's, chip's or
text's; modals are finitely many; a select has an option beside the placeholder, and a list
of chips room for one, as the initial states may have them; a carousel's bound lets it turn
to each of its slides; a calendar's `minDate` is not after its `maxDate` (or the date it
chooses would be outside); and of modals, a datepicker and a timepicker a page has one,
because the dialog of a picker is a modal too and would count among the others, which
`PickerBecomes` does not model. The requests that `Storefront` and `UserService` speak of
are finitely many (of any number): sums and numbers of cards are taken over them. Two
theorems assume what their runs do, that calls do not overlap: `TrailAlwaysComplete` that
one call is served at a time (`MaxInFlight = 1`), `ChangesCorrect` that one of a user is
(`MaxPerUser = 1`).

Every inductive invariant that is not a property of a run itself was checked by TLC on
the instances of the runs before it was proved.

`FoodSagaProofs` proves `TypeCorrect == Spec => []TypeOK`. The type invariant is not
inductive alone: a task's order is typed because the record it was made from is, and a
call's order because the field is not null from its assignment on, which the crash of the
process keeps by ending every call it was serving. `TypeInv` adds this.

Its second part proves, for any number of calls in any overlap, any faults and any pool
sizes:

- `CauseCorrect == Spec => []EverythingHasItsCause`, the inductive invariant: each record
  has the records and rows that must precede it (`Justified`), and so do logs, tasks,
  rows, received messages, and answers to customers.
- `ApprovalCorrect`, `RejectionCorrect`, `AnswerCorrect`, `OneOrderPerTransaction`: the
  four safety properties `ApprovedIsPaidAndCooked`, `RejectedIsDeniedOrRefunded`,
  `AnswerFollowsFinalize`, `SameOrderThroughoutSaga` follow from it.

Why an invariant on causes: the properties speak of the last record of a chain of up to
nine steps through three processes, any of which may die or repeat itself in between; no
relation between current states survives that. Records and rows are never taken back,
though, so what has been established stays (lemmas `GrowBySend`, `GrowQuietly` and the
`...Stay` lemmas built on them), and each step has only to justify the one record, task or
row it adds. A lost record leaves an effect out, and a repeated one or one read again
repeats an effect that has its cause. The race on `newOrderMessage` is met by
`IDsIdentifyOrders`: an ID is set in one order only, and nobody takes it out again before
it has been published with that order.

Its third part proves `PromiseKept == Spec => KeepsPromise`: `FoodSaga`, with any
calls, pools and faults, implements `OrderSaga`. A step makes at most one fact hold that
did not (`OnlyFact`), because it sends one record, stores one row or charges one card; the
cause that `OrderSaga` asks for is there by `EverythingHasItsCause`; no step both makes a
fact hold and tells a customer. One conjunct needed a further invariant: that no order is
placed once its call has ended, although the shared field may still refer to it
(`UnpublishedIDsAreServed`).

`FoodSagaSteps` proves what holds until something fails (`faults = 0`; the runs that check
these properties have no faults), for any calls, in any overlap, and any pools:

- `StepByStepAlways == Spec => []StepByStepInv`, with `SagasGoStepByStep`. Of a
  transaction published once, either one thing is under way, a record nobody has taken or
  a task, and its kind and step say what the orchestrator has heard, how often the card was
  charged and how often the money was given back; or nothing is, one decision was made, the
  log is gone and the money is right. Beside it, the requests that were sent and the keys
  of the log follow from what was heard.
- `OneStepAlways`, `LogAlwaysMatches`, `MoneyAlwaysMatches`: `OneStepAtATime`,
  `LogMatchesTopics` and `MoneyMatchesOutcome` follow.
- `TrailAlwaysComplete`: `EventTrailIsComplete`, when calls are served one at a time, from
  `CallsLeaveTheirTrail`: the fields the served call finds are its own, its events are
  stored as far as it is, and `orderTable` has its row when it is approved.

Why these: none of the three properties is inductive, as each speaks of one side of what a
step moves; only together do the place, what was heard and the money determine the next
step. Transactions published twice are left out, since their sagas run into each other and
charge the card twice; overlapping calls may bring that about, as both publish the shared
`newOrderMessage`. A step concerns one transaction, and everything of the others stays as
it was (`Untouched`): records keep their index when one of another transaction is appended.

`StorefrontProofs` proves `StorefrontTypeCorrect` and `CartsCorrect`: for any users,
requests, tabs and failures, types are right and every cart stored, copied or ordered is
well formed. The invariant is their conjunction, `TypeOK` containing `HandlersReady`, what
each handler's next step relies on. The core is what `AddMenuItem` does to the lines of a
cart (`IncreaseKeepsLines`, `AddMenuItemWellFormed`, `WithItemWellFormed`): the copy a
handler writes back may be stale, but a well-formed copy gives a well-formed cart.
Then, for any overlaps and failures:

- `MailsCorrect` (`MailsFollowApprovals`), from what the page of an order has in hand at
  each of its steps (`OrdersInPlace`, `MailsInPlace`);
- `AdditionsCountOnce` (`NothingIsAddedTwice`), from `CartsWithinWritten`: of each product,
  every stored, copied or ordered cart holds at most what the user's finished additions
  wrote. The property compares with all additions, finished or not, and would not be
  inductive: an addition under way adds to a copy that might hold its own quantity already;
- `OneTabBuysOnce` and `OneTabKeepsAll` (`NothingIsBoughtTwice`, `OneTabLosesNothing`),
  for users with one request at a time, from `OneTabInPlace`: the copy in hand is still
  the cart, what was bought and what is in the cart are together no more than what was
  added, and of who only adds of one restaurant, the cart has all.

The quantities are sums over sets of requests, lines and orders. How the library takes the
elements of a set out, one by one, is not known, so that a sum does not depend on it, grows
with its set and changes by what is added is proved by taking a least set, under inclusion,
for which it fails (`LeastSubset`, on the library's well-founded order of finite sets).

`UserServiceProofs` proves, for any users, requests, operations, failures and overlaps,
`UsersTypeCorrect` (`TypeOK`), `PreferencesCorrect` (`NoPreferenceIsHidden`), `FieldCorrect`
(`FieldIsUsable`) and `LeaksCorrect` (`LeaksComeFromOverlaps`). The invariant `Inv` is the
types with what each thread's next step relies on, and that no row or copy hides a
preference; `FieldIsUsable`, which lets a connection that was broken off stay in the field
and says that one that was closed does not, is inductive beside it, and `NoLeak` says in
addition that, without overlaps, a thread opens a connection only when nothing is open. Its
last part proves `ServedAloneCorrect` (`ServedAlone`, until the database fails) from two
more invariants: `AloneOK`, what the connection, the handle and the copy of a request served
alone are at each of its steps (it starts from `FieldIsUsable`, as nobody is left to set the
field to null), and `SavedOK`, by which a row once gone stays gone, so that a refusal
remains justified. `ChangesCorrect` proves `AcknowledgedChangesStay` for calls that do not
overlap with others of the same user, while those of other users may break their connection
at any step. Its invariant `ChangesInv` says that one call of a user is served at a time,
that a change is answered once, when it ends, that the copy a change works on is the row as
it still is, with its own change after the read, and that what is in a row beyond what the
user was saved with belongs to a change that was answered, acknowledged or not. So a value
that replaces an acknowledged one is that of a later answer.

`RestaurantServiceProofs` proves, for any restaurants, requests, operations, failures and
restarts, `RestaurantsTypeCorrect` (`TypeOK`), `FirstDishCorrect`
(`MenusKeepTheirFirstDish`, inductive beside the types: a stale copy starts with the dish
as well, so writing it back keeps it) and `DeletionCorrect` (`DeletedStaysDeleted`, an
action property, from the types and the lemma `WrittenCreates`). `DishesCorrect` proves
`AcknowledgedDishesStay` from `DishesInv`: an acknowledged dish that nobody overlapped is
once on the menu and on every copy about to be written back. That needs that a dish comes
onto menus only when its call ends, that two changes of a menu served together are known
to overlap, and that no change was made for an ID before it was given (`IDsAreFresh`), or
the insertion of the restaurant would leave an acknowledged dish out.

`SessionsProofs` proves, for any users, tabs, requests and failures, `SessionsTypeCorrect`
(`TypeOK`) and `SessionsShowTheirOwn` (`NobodySeesAnother`). The second is inductive
beside the first: a session is made of the columns of one row, or is a copy of one with a
column of the user whose page sent it, which is the session's user as long as no page was
used in another's session; and whichever copy a late response sets, it is such a session.
`SessionsAreWhoLoggedIn` (`SessionIsWhoLoggedIn`) holds by `SessionIsCurrent`: without
overlaps the one request on its way carries the session the browser has, and its response
the session of who is logged in once it has come. `SessionsMatchTheRows`
(`SessionMatchesRow`) adds `RowsMatch`: the session's columns are the row's, except while
the response that says how the row changed is on its way; so an update goes to the row of
the session's own user, and a registration to one that was not there.

`ControlsProofs` and `WidgetsProofs` prove, for any pages, any number of toasts, modals,
items, chips, options, slides, tabs and sections, any texts, dates and times, and any order
of events, `PageTypes` (`TypeOK`), `WidgetsAtRest` (`WidgetsShowTheirState`, with the
exceptions named in section 2), `WidgetsCount` (`WidgetsKeepCount`) and `BodyCorrect`
(`BodyScrolls`). They follow from `PagesFit`: the invariant `WidgetsFit` of a page is made
of one for each widget on it, `SidenavFits` and so on. What a widget shows at rest is not
inductive, as the last timer or animation decides it; so these say where everything that is
under way will lead:

- the animation of a drawer, a modal, a menu or a picture leads to what `isOpen` says, and a
  finger that drags the drawer has stopped it and keeps the overlay (`OneFinger`,
  `AnimatesTo`); open modals lie at the heights 1, 2 and so on, no two at the same
  (`Stacked`), so the one on top is the last one counted;
- the delays of a tooltip and the stages of a floating button lead to what `isOpen` says, and
  what a button of the toolbar form listens to is there or will be, once (`FabListens`,
  `FabWillListen`, `FabDeaf`);
- the toasts listed are those on the page, each once, and one whose timer runs is not leaving
  (`ToastsListed`, `TimerSound`); a ripple that nobody holds is on its way out, and only the
  last may be held (`LastIsHeld`, `SomebodyHolds`);
- the menu and the keys of a select agree with what is selected, and the text of its field
  does unless the timer of a reset is still to run (`MenuAgrees`);
- what a carousel shows follows from its offset, which at rest is that of its target, which is
  a slot unless it is skewed (`MiddleShown`, `TargetIsSlot`, `RestsAtTarget`); the carousel of
  swipeable tabs keeps to the same, and the active tab is the one in the middle
  (`MiddleIsActive`); where panels became slides, swipeable or not, the one chosen last is among
  those displayed (`PanelsWrapped`);
- the sections listed as visible are those in view, each once, and the first of them is
  highlighted (`Tracks`); the loops in which several enter and exit are followed by a least
  counterexample (`LeastNat`);
- a date that is picked lies in the calendar's range (`DateMayBePicked`), and a calendar
  shows its month in whole weeks (`CalendarIsTrue`), from the number of its days and the day
  it starts on, in any year from 100 on; an open clock of twelve hours shows an hour from 1
  to 12 (`ReadsRight`).

The widgets of a page meet in its body only: a step changes one of them (`Only`), and opens it
and holds the body, closes it and lets the body go, or does neither and leaves the body as
it was (`Moves`). So a body that is held has something open over it, on a page with a drawer
and a picker as well, which the run leaves out.

Only model-checked:

- liveness (`PublishedCallIsAnswered`, `OpenSagaCloses`, `EveryCallIsAnswered`,
  `PagesEnd`, `ToastsGo`), which is out of the prover's reach: its rules for fairness
  rest on ENABLED.

Every invariant and every other action property that a passing run checks is proved.

Theorems whose statement takes an operator, as the library's induction theorems do, cannot
be used with these provers; where an argument over data is an induction on a finite set, as
for the sums above, a least counterexample takes its place.

## 5. Not modelled

- Mail service (planned below). Only `sendMail` is exposed as a call; the operations that
  change templates have no caller.
- In the frontend: the pages that only show data and the test handlers that call one
  wrapper. The log in and the changes of a user's data are in `Sessions`, with the user
  service as a row per user, and at the service itself in `UserService`.
- Of `materialize.js`: the selector library (cash) and the animation library (anime) the file
  begins with; `Parallax`, `Pushpin`, `CharacterCounter`, `Range`, `TapTarget` and `Cards`,
  whose only state is where they are on the screen or what a field holds; and the placing of
  menus, tooltips and dialogs.
- A crash of the user service: its only state in memory is the connection's field, and
  the first state of a restarted process is among the initial ones.
- Recommendation service: computes an answer and keeps no state.
- HBase and Cassandra set-up, the query methods nobody calls, growth of producers and of
  the message list as a resource, the load generator, deployment files, generated code.

## 6. Plan

Order of the modules, the most important behaviour first. Lines 1 to 10 are done.

1. `SagaTopics`, `SagaOrchestrator`, `PaymentService`, `KitchenService`,
   `CheckoutController`, `FoodSaga`: runs `overlap`, `faults`, `serial`, `race`.
2. `FoodSagaInvariant`, `FoodSagaProofs`: type correctness and the
   causal safety properties for all constants.
3. `CartService`, `Storefront`, `StorefrontProofs`: runs `tabs`, `lost_item`.
4. `UserService`, `UserServiceProofs`: runs `users_overlap`, `users_apart`.
5. `RestaurantService`, `RestaurantServiceProofs`: run `restaurants`.
6. `OrderSaga`, the mapping in `FoodSagaInvariant`: what a customer is promised, and the
   step simulation as a theorem.
7. `Sessions`, `SessionsProofs`: run `sessions`.
8. `Document`, a module per widget, `Widgets`: runs `widgets`, `toast_swipe`.
9. `FoodSagaSteps`, and the proofs of the other safety properties of the carts, users,
   restaurants and sessions.
10. `ControlsProofs`, `WidgetsProofs`: the invariants of the widgets and of the body they share.
11. Not done: `MailService`, a mail sent over a static connection shared as the user service's
   is; pages on which the dialogs of pickers are counted among the modals.
